---- MODULE Spec2Model ----
(***************************************************************************)
(* Ledger: an append-only, hash-chained, per-entry signed conversation log *)
(* (ledger/chain/session.py), its SQLite storage backend                    *)
(* (ledger/storage/sqlite.py) and its offline verifier                      *)
(* (ledger/verify/verifier.py).                                             *)
(*                                                                          *)
(* Cryptography is symbolic: a digest is a term that carries its preimage   *)
(* (no collisions), a signature is a term that carries the signing key and  *)
(* the signed bytes (no forgery).  Strings that the code builds from such   *)
(* terms (hex digests, base64url signatures) are tagged records; literal    *)
(* strings in the same position are [str |-> "..."].                        *)
(***************************************************************************)
EXTENDS Integers, Sequences, FiniteSets, TLC

(***************************************************************************)
(* Bounds of the model and the input sets the actions draw from.           *)
(***************************************************************************)
MaxLen == 3

SessionId == "s1"

Contents == {"hello", "world"}

Timestamps == {"2026-01-31T14:00:00.000Z"}

CreatedTimes == {"2026-01-31T14:00:05.000Z"}

\* The callers of append: each agent id with its role and its own signing key.
Callers ==
  { [agent_id |-> "agent:alice", role |-> "user",      signer |-> "key:alice"],
    [agent_id |-> "agent:bob",   role |-> "assistant", signer |-> "key:bob"] }

\* agent_id[-6:] for the agent ids in use (strings cannot be sliced in TLA+).
Suffix6(agent_id) ==
  CASE agent_id = "agent:alice" -> ":alice"
    [] agent_id = "agent:bob"   -> "nt:bob"
    [] agent_id = "agent:eve"   -> "nt:eve"
    [] agent_id = "agent:user"  -> "t:user"
    [] agent_id = "agent:tool"  -> "t:tool"
    [] OTHER                    -> agent_id

(***************************************************************************)
(* core/types.py: Proof and Message.                                        *)
(***************************************************************************)
\* proof = None
NoProof == [none |-> TRUE]

\* the JSON object {}
EmptyObject == [object |-> "{}"]

\* a literal string in a position that can also hold a digest or a signature
Str(s) == [str |-> s]

Proof(created, verification_method, proof_value) ==
  [ type                |-> "Ed25519Signature2020",
    created             |-> created,
    verification_method |-> verification_method,
    proof_purpose       |-> "assertionMethod",
    proof_value         |-> proof_value ]

Message(id, timestamp, session_id, sequence, agent_id, agent_role, content, content_type, prev_hash, proof) ==
  [ id           |-> id,
    timestamp    |-> timestamp,
    session_id   |-> session_id,
    sequence     |-> sequence,
    agent_id     |-> agent_id,
    agent_role   |-> agent_role,
    content      |-> content,
    content_type |-> content_type,
    prev_hash    |-> prev_hash,
    proof        |-> proof ]

\* Message.to_dict: asdict, with proof None replaced by {}
ToDict(msg) ==
  [msg EXCEPT !.proof = IF msg.proof = NoProof THEN EmptyObject ELSE msg.proof]

\* {k: v for k, v in msg.to_dict().items() if k != "proof"}
Payload(msg) ==
  [ id           |-> msg.id,
    timestamp    |-> msg.timestamp,
    session_id   |-> msg.session_id,
    sequence     |-> msg.sequence,
    agent_id     |-> msg.agent_id,
    agent_role   |-> msg.agent_role,
    content      |-> msg.content,
    content_type |-> msg.content_type,
    prev_hash    |-> msg.prev_hash ]

(***************************************************************************)
(* core/canon.py and core/encoding.py.                                      *)
(***************************************************************************)
\* canonical_json: the RFC 8785 bytes of a JSON value; equal values give equal
\* bytes and the value can be parsed back from them.
CanonicalJson(obj) == [json |-> obj]

\* json.loads of a canonical string
JsonLoads(text) == text.json

\* b64url_encode / b64url_decode; a string that is no encoding of a term
\* decodes to bytes that are no signature.
B64urlEncode(data) == [b64 |-> data]

\* decoding restores the padding: an encoding with padding characters left on
\* it decodes to the same bytes
B64urlDecode(s) == IF "b64" \in DOMAIN s THEN s.b64 ELSE [bytes |-> s]

\* the exception b64url_decode raises: base64.urlsafe_b64decode rejects a
\* string whose count of data characters is 1 more than a multiple of 4 ("A")
\* and one with data after its padding ("A=A"); characters outside the
\* alphabet are dropped ("@@@@" decodes to no bytes)
B64urlDecodeError(s) ==
  IF s \in {Str("A"), Str("A=A")} THEN "binascii.Error" ELSE "none"

\* the encoding s with "=" appended: another string for the same bytes
B64urlPadded(s) == [b64 |-> s.b64, padding |-> "="]

(***************************************************************************)
(* ledger/crypto (hashing.py, keys.py).                                     *)
(***************************************************************************)
\* lowercase hex SHA-256 of bytes
Sha256Hex(bytes) == [sha256 |-> bytes]

\* message_hash: digest of the canonical serialization including the proof
MessageHash(msg) == Sha256Hex(CanonicalJson(ToDict(msg)))

\* AgentKeyPair.public_key_b64url
PublicKeyB64url(key) == [pub |-> key]

\* AgentKeyPair.from_public_b64url: the exception it raises for a string
\* that is no public key, "none" for a public key
FromPublicB64urlError(pub) == IF "pub" \in DOMAIN pub THEN "none" ELSE "ValueError"

\* AgentKeyPair.sign_bytes
SignBytes(key, bytes) == [signed_by |-> key, bytes |-> bytes]

\* AgentKeyPair.from_public_b64url(pub).verify_bytes(sig, bytes): false on any
\* bytes that are no signature of this key over these bytes
VerifyBytes(pub, sig, bytes) ==
  /\ "signed_by" \in DOMAIN sig
  /\ PublicKeyB64url(sig.signed_by) = pub
  /\ sig.bytes = bytes

\* AgentKeyPair.sign_message: the proof block, signed over the canonical bytes
\* of the entry without its proof (the bytes verifier.py:111-112 rebuilds)
SignMessage(key, msg, created) ==
  [msg EXCEPT !.proof =
     Proof(created, PublicKeyB64url(key),
           B64urlEncode(SignBytes(key, CanonicalJson(Payload(msg)))))]

\* the trust map {agent_id -> that agent's public key}
TrustedKeys ==
  [a \in {c.agent_id : c \in Callers} |->
     PublicKeyB64url((CHOOSE c \in Callers : c.agent_id = a).signer)]

(***************************************************************************)
(* State.                                                                   *)
(***************************************************************************)
VARIABLES
  messages,    \* ConversationSession.messages
  storage,     \* ConversationSession.storage: "attached" or "none"
  conn,        \* SQLiteStorage._conn of the session's handle: "open" or "closed"
  db,          \* the rows of table messages in the database file
  warned,      \* sequence numbers of the "Failed to persist" warnings printed
  closedLen,   \* length of the chain when close() released the storage, -1 before
  loaded,      \* outcome of the last load_messages of a reader on the database
  probe,       \* the chain last handed to LogVerifier.verify
  result,      \* the VerificationResult of that call
  op,          \* the operation that produced probe
  verifier,    \* the LogVerifier last constructed: its trusted_keys, or none
  ret          \* outcome of the last direct call on a storage handle or verifier

vars == <<messages, storage, conn, db, warned, closedLen, loaded, probe, result, op,
          verifier, ret>>

(***************************************************************************)
(* storage/sqlite.py.                                                       *)
(***************************************************************************)
\* json.dumps(msg.proof.__dict__, sort_keys=True, separators=(",", ":"))
JsonDumps(obj) == [json |-> obj]

\* RowOf with the two hash columns bound in the wrong order
RowOfHashColumnsSwapped(msg) ==
  [ session_id     |-> msg.session_id,
    sequence       |-> msg.sequence,
    prev_hash      |-> MessageHash(msg),
    message_hash   |-> msg.prev_hash,
    timestamp      |-> msg.timestamp,
    agent_id       |-> msg.agent_id,
    agent_role     |-> msg.agent_role,
    canonical_json |-> CanonicalJson(Payload(msg)),
    proof_json     |-> JsonDumps(msg.proof) ]

\* the row SQLiteStorage.append builds for a signed message
RowOf(msg) ==
  [ session_id     |-> msg.session_id,
    sequence       |-> msg.sequence,
    prev_hash      |-> msg.prev_hash,
    message_hash   |-> MessageHash(msg),
    timestamp      |-> msg.timestamp,
    agent_id       |-> msg.agent_id,
    agent_role     |-> msg.agent_role,
    canonical_json |-> CanonicalJson(Payload(msg)),
    proof_json     |-> JsonDumps(msg.proof) ]

\* INSERT OR REPLACE in place of INSERT OR IGNORE
InsertOrReplace(rows, row) ==
  {r \in rows : ~(r.session_id = row.session_id /\ r.sequence = row.sequence)}
  \cup {row}

\* INSERT OR IGNORE under PRIMARY KEY (session_id, sequence)
InsertOrIgnore(rows, row) ==
  IF \E r \in rows : r.session_id = row.session_id /\ r.sequence = row.sequence
  THEN rows
  ELSE rows \cup {row}

\* the Message load_messages rebuilds from one row
MessageOfRow(row, session_id) ==
  LET payload == JsonLoads(row.canonical_json)
  IN  Message(payload.id, row.timestamp, session_id, row.sequence, row.agent_id,
              row.agent_role, payload.content, payload.content_type,
              row.prev_hash, JsonLoads(row.proof_json))

\* SELECT ... WHERE session_id = ? ORDER BY sequence ASC
RECURSIVE OrderBySequence(_)
OrderBySequence(rows) ==
  IF rows = {} THEN <<>>
  ELSE LET first == CHOOSE r \in rows : \A q \in rows : r.sequence <= q.sequence
       IN  <<first>> \o OrderBySequence(rows \ {first})

\* SelectSession with ORDER BY sequence DESC
SelectSessionDescending(rows, session_id) ==
  LET asc == OrderBySequence({r \in rows : r.session_id = session_id})
  IN  [k \in 1..Len(asc) |-> asc[Len(asc) + 1 - k]]

SelectSession(rows, session_id) ==
  OrderBySequence({r \in rows : r.session_id = session_id})

\* a reload check that lets every list pass
BrokenAtNever(list) == {}

\* the reload check: positions (1-based) of the loaded entries that stop the loop
BrokenAt(list) ==
  { k \in 1..Len(list) :
      /\ list[k].sequence > 0
      /\ \/ list[k].sequence > Len(list)
         \/ list[k].prev_hash # MessageHash(list[list[k].sequence]) }

\* SQLiteStorage.load_messages on an open connection
LoadMessages(rows, session_id) ==
  LET selected == SelectSession(rows, session_id)
      list     == [k \in 1..Len(selected) |-> MessageOfRow(selected[k], session_id)]
      broken   == BrokenAt(list)
  IN  IF broken = {}
      THEN [status |-> "ok", msgs |-> list, at |-> -1]
      ELSE LET k == CHOOSE j \in broken : \A i \in broken : j <= i
           IN  IF list[k].sequence > Len(list)
               THEN [status |-> "IndexError", msgs |-> <<>>, at |-> list[k].sequence]
               ELSE [status |-> "Chain broken", msgs |-> <<>>, at |-> list[k].sequence]

NotLoaded == [status |-> "none", msgs |-> <<>>, at |-> -1]

(***************************************************************************)
(* verify/verifier.py: LogVerifier.verify.                                  *)
(***************************************************************************)
\* Failure that leaves the category at the default of the dataclass
FailureDefaultCategory(index, category, message) ==
  [index |-> index, category |-> "general", message |-> message]

\* VerificationFailure(index, message, category)
Failure(index, category, message) ==
  [index |-> index, category |-> category, message |-> message]

\* Phase1At comparing session_id with the previous entry's, not the first's
Phase1AtPreviousSession(chain, k) ==
  (IF chain[k].session_id # chain[IF k = 1 THEN 1 ELSE k - 1].session_id
     THEN <<Failure(k - 1, "session", "Session ID mismatch")>> ELSE <<>>)
  \o (IF chain[k].sequence # k - 1
     THEN <<Failure(k - 1, "sequence", "Sequence number mismatch")>> ELSE <<>>)
  \o (IF chain[k].proof = NoProof
     THEN <<Failure(k - 1, "signature", "Message missing proof/signature")>> ELSE <<>>)

\* Phase1At expecting sequence numbers to start at 1
Phase1AtOneBased(chain, k) ==
  (IF chain[k].session_id # chain[1].session_id
     THEN <<Failure(k - 1, "session", "Session ID mismatch")>> ELSE <<>>)
  \o (IF chain[k].sequence # k
     THEN <<Failure(k - 1, "sequence", "Sequence number mismatch")>> ELSE <<>>)
  \o (IF chain[k].proof = NoProof
     THEN <<Failure(k - 1, "signature", "Message missing proof/signature")>> ELSE <<>>)

\* phase 1 for the entry at position k (1-based; the code's index is k - 1)
Phase1At(chain, k) ==
  (IF chain[k].session_id # chain[1].session_id
     THEN <<Failure(k - 1, "session", "Session ID mismatch")>> ELSE <<>>)
  \o (IF chain[k].sequence # k - 1
     THEN <<Failure(k - 1, "sequence", "Sequence number mismatch")>> ELSE <<>>)
  \o (IF chain[k].proof = NoProof
     THEN <<Failure(k - 1, "signature", "Message missing proof/signature")>> ELSE <<>>)

\* Phase2At with the loop starting one entry late
Phase2AtFromSecondLink(chain, k) ==
  IF k > 2 /\ chain[k].prev_hash # MessageHash(chain[k - 1])
  THEN <<Failure(k - 1, "hash_chain", "prev_hash does not match hash of previous message")>>
  ELSE <<>>

\* phase 2 for the entry at position k >= 2
Phase2At(chain, k) ==
  IF chain[k].prev_hash # MessageHash(chain[k - 1])
  THEN <<Failure(k - 1, "hash_chain", "prev_hash does not match hash of previous message")>>
  ELSE <<>>

\* Phase3At that looks the key up and never checks the signature
Phase3AtLookupOnly(chain, k, trusted_keys) ==
  IF chain[k].agent_id \notin DOMAIN trusted_keys
  THEN <<Failure(k - 1, "signature", "No trusted public key found")>>
  ELSE <<>>

\* phase 3 for the entry at position k
Phase3At(chain, k, trusted_keys) ==
  LET msg             == chain[k]
      canon_bytes     == CanonicalJson(Payload(msg))
      signature_bytes == B64urlDecode(msg.proof.proof_value)
  IN  IF msg.agent_id \notin DOMAIN trusted_keys
      THEN <<Failure(k - 1, "signature", "No trusted public key found")>>
      ELSE IF FromPublicB64urlError(trusted_keys[msg.agent_id]) # "none"
           THEN <<Failure(k - 1, "signature", "Failed to load trusted public key")>>
           ELSE IF ~VerifyBytes(trusted_keys[msg.agent_id], signature_bytes, canon_bytes)
                THEN <<Failure(k - 1, "signature", "Signature verification failed")>>
                ELSE <<>>

\* Phase1 that stops at the first failure it finds
Phase1StopsAtFirst(chain) ==
  LET acc[k \in 0..Len(chain)] ==
        IF k = 0 THEN <<>> ELSE acc[k - 1] \o Phase1At(chain, k)
  IN  IF acc[Len(chain)] = <<>> THEN <<>> ELSE <<acc[Len(chain)][1]>>

Phase1(chain) ==
  LET acc[k \in 0..Len(chain)] ==
        IF k = 0 THEN <<>> ELSE acc[k - 1] \o Phase1At(chain, k)
  IN  acc[Len(chain)]

Phase2(chain) ==
  LET acc[k \in 1..Len(chain)] ==
        IF k = 1 THEN <<>> ELSE acc[k - 1] \o Phase2At(chain, k)
  IN  acc[Len(chain)]

\* Phase3 that leaves the loop at the first entry without a trusted key
Phase3StopsAtUntrusted(chain, trusted_keys) ==
  LET acc[k \in 0..Len(chain)] ==
        IF k = 0 THEN <<>>
        ELSE IF \E j \in 1..(k - 1) : chain[j].agent_id \notin DOMAIN trusted_keys
             THEN acc[k - 1]
             ELSE acc[k - 1] \o Phase3At(chain, k, trusted_keys)
  IN  acc[Len(chain)]

Phase3(chain, trusted_keys) ==
  LET acc[k \in 0..Len(chain)] ==
        IF k = 0 THEN <<>> ELSE acc[k - 1] \o Phase3At(chain, k, trusted_keys)
  IN  acc[Len(chain)]

VerificationResult(failures) ==
  [is_valid |-> failures = <<>>, failures |-> failures]

\* Verify that checks the signatures alone, on chains whose entries all carry
\* a proof
VerifySignaturesOnly(chain, trusted_keys) ==
  IF chain = <<>>
  THEN VerificationResult(<<>>)
  ELSE IF \E k \in 1..Len(chain) : chain[k].proof = NoProof
       THEN VerificationResult(Phase1(chain))
       ELSE VerificationResult(Phase3(chain, trusted_keys))

\* Verify that has no case for the empty chain and rejects it
VerifyEmptyInvalid(chain, trusted_keys) ==
  IF chain = <<>>
  THEN VerificationResult(<<Failure(0, "sequence", "Sequence number mismatch")>>)
  ELSE IF Phase1(chain) # <<>>
       THEN VerificationResult(Phase1(chain))
       ELSE VerificationResult(Phase2(chain) \o Phase3(chain, trusted_keys))

\* Verify that returns after phase 2 when phase 2 found a broken link
VerifyStopsAfterPhase2(chain, trusted_keys) ==
  IF chain = <<>>
  THEN VerificationResult(<<>>)
  ELSE IF Phase1(chain) # <<>>
       THEN VerificationResult(Phase1(chain))
       ELSE IF Phase2(chain) # <<>>
            THEN VerificationResult(Phase2(chain))
            ELSE VerificationResult(Phase3(chain, trusted_keys))

\* LogVerifier(trusted_keys).verify(chain)
Verify(chain, trusted_keys) ==
  IF chain = <<>>
  THEN VerificationResult(<<>>)
  ELSE IF Phase1(chain) # <<>>
       THEN VerificationResult(Phase1(chain))
       ELSE VerificationResult(Phase2(chain) \o Phase3(chain, trusted_keys))

(***************************************************************************)
(* chain/session.py: ConversationSession.                                   *)
(***************************************************************************)
\* f"msg-{self.length:04d}-{agent_id[-6:]}"
MsgId(length, agent_id) == [msg |-> length, suffix |-> Suffix6(agent_id)]

\* get_last_hash: None for an empty session
NoHash == [none |-> TRUE]

GetLastHash(msgs) ==
  IF msgs = <<>> THEN NoHash ELSE MessageHash(msgs[Len(msgs)])

\* PrevHash that never links
PrevHashAlwaysEmpty(msgs) == Str("")

\* PrevHash over the predecessor without its proof
PrevHashWithoutProof(msgs) ==
  IF msgs = <<>> THEN Str("") ELSE Sha256Hex(CanonicalJson(Payload(msgs[Len(msgs)])))

\* the prev_hash append computes
PrevHash(msgs) ==
  IF msgs = <<>> THEN Str("") ELSE MessageHash(msgs[Len(msgs)])

\* Unsigned numbering the entries from 1
UnsignedOneBased(msgs, session_id, content, role, agent_id, timestamp, content_type) ==
  Message(MsgId(Len(msgs), agent_id), timestamp, session_id, Len(msgs) + 1, agent_id,
          role, content, content_type, PrevHash(msgs), NoProof)

\* the unsigned entry append builds
Unsigned(msgs, session_id, content, role, agent_id, timestamp, content_type) ==
  Message(MsgId(Len(msgs), agent_id), timestamp, session_id, Len(msgs), agent_id,
          role, content, content_type, PrevHash(msgs), NoProof)

\* get_chain: a copy of the list
GetChain(msgs) == [k \in 1..Len(msgs) |-> msgs[k]]

(***************************************************************************)
(* Operations.                                                              *)
(***************************************************************************)
NoOp == [kind |-> "none", index |-> -1, field |-> "", other |-> -1]

\* no LogVerifier constructed yet
NoVerifier == [constructed |-> FALSE, trusted_keys |-> <<>>]

\* no direct call made yet
NoCall == [call |-> "none", arg |-> <<>>, error |-> "none", value |-> <<>>]

\* ConversationSession(session_id): created empty, in memory only
InitMemory ==
  /\ messages = <<>>
  /\ storage = "none"
  /\ conn = "none"
  /\ db = {}
  /\ warned = {}
  /\ closedLen = -1
  /\ loaded = NotLoaded
  /\ probe = <<>>
  /\ result = VerificationResult(<<>>)
  /\ op = NoOp
  /\ verifier = NoVerifier
  /\ ret = NoCall

\* ConversationSession(session_id, storage=path) on a new database: the
\* auto-load finds no rows
InitStored ==
  /\ messages = LoadMessages({}, SessionId).msgs
  /\ storage = "attached"
  /\ conn = "open"
  /\ db = {}
  /\ warned = {}
  /\ closedLen = -1
  /\ loaded = NotLoaded
  /\ probe = <<>>
  /\ result = VerificationResult(<<>>)
  /\ op = NoOp
  /\ verifier = NoVerifier
  /\ ret = NoCall

\* SessionAppend over a plain INSERT: a taken key raises IntegrityError, which
\* append catches and reports with the warning
SessionAppendPlainInsert(content, caller, timestamp, created, io_ok) ==
  /\ Len(messages) < MaxLen
  /\ LET unsigned == Unsigned(messages, SessionId, content, caller.role,
                              caller.agent_id, timestamp, "text/plain")
         signed   == SignMessage(caller.signer, unsigned, created)
         taken    == \E r \in db : /\ r.session_id = signed.session_id
                                   /\ r.sequence = signed.sequence
     IN  /\ messages' = Append(messages, signed)
         /\ IF storage = "attached"
            THEN IF conn = "open" /\ io_ok /\ ~taken
                 THEN /\ db' = db \cup {RowOf(signed)}
                      /\ warned' = warned
                 ELSE /\ db' = db
                      /\ warned' = warned \cup {signed.sequence}
            ELSE UNCHANGED <<db, warned>>
  /\ UNCHANGED <<storage, conn, closedLen, loaded, probe, result, op, verifier, ret>>

\* SessionAppend that takes the entry back when the INSERT fails
SessionAppendRollback(content, caller, timestamp, created, io_ok) ==
  /\ Len(messages) < MaxLen
  /\ LET unsigned == Unsigned(messages, SessionId, content, caller.role,
                              caller.agent_id, timestamp, "text/plain")
         signed   == SignMessage(caller.signer, unsigned, created)
     IN  IF storage = "attached"
         THEN IF conn = "open" /\ io_ok
              THEN /\ messages' = Append(messages, signed)
                   /\ db' = InsertOrIgnore(db, RowOf(signed))
                   /\ warned' = warned
              ELSE /\ messages' = messages
                   /\ db' = db
                   /\ warned' = warned \cup {signed.sequence}
         ELSE /\ messages' = Append(messages, signed)
              /\ UNCHANGED <<db, warned>>
  /\ UNCHANGED <<storage, conn, closedLen, loaded, probe, result, op, verifier, ret>>

\* ConversationSession.append; io_ok is whether the INSERT succeeds
SessionAppend(content, caller, timestamp, created, io_ok) ==
  /\ Len(messages) < MaxLen
  /\ LET unsigned == Unsigned(messages, SessionId, content, caller.role,
                              caller.agent_id, timestamp, "text/plain")
         signed   == SignMessage(caller.signer, unsigned, created)
     IN  /\ messages' = Append(messages, signed)
         /\ IF storage = "attached"
            THEN IF conn = "open" /\ io_ok
                 THEN /\ db' = InsertOrIgnore(db, RowOf(signed))
                      /\ warned' = warned
                 ELSE /\ db' = db
                      /\ warned' = warned \cup {signed.sequence}
            ELSE UNCHANGED <<db, warned>>
  /\ UNCHANGED <<storage, conn, closedLen, loaded, probe, result, op, verifier, ret>>

\* SessionClose that closes the handle and keeps it attached to the session
SessionCloseKeepsStorage ==
  /\ IF storage = "attached" /\ conn = "open"
     THEN /\ conn' = "closed"
          /\ storage' = "attached"
          /\ closedLen' = Len(messages)
     ELSE UNCHANGED <<conn, storage, closedLen>>
  /\ UNCHANGED <<messages, db, warned, loaded, probe, result, op, verifier, ret>>

\* SessionClose that also empties the chain
SessionCloseClears ==
  /\ IF storage = "attached"
     THEN /\ conn' = "closed"
          /\ storage' = "none"
          /\ closedLen' = Len(messages)
     ELSE UNCHANGED <<conn, storage, closedLen>>
  /\ messages' = <<>>
  /\ UNCHANGED <<db, warned, loaded, probe, result, op, verifier, ret>>

\* ConversationSession.close
SessionClose ==
  /\ IF storage = "attached"
     THEN /\ conn' = "closed"
          /\ storage' = "none"
          /\ closedLen' = Len(messages)
     ELSE UNCHANGED <<conn, storage, closedLen>>
  /\ UNCHANGED <<messages, db, warned, loaded, probe, result, op, verifier, ret>>

\* SQLiteStorage(path).load_messages(session_id) by a reader with its own handle
ReaderLoad(session_id) ==
  /\ loaded' = LoadMessages(db, session_id)
  /\ UNCHANGED <<messages, storage, conn, db, warned, closedLen, probe, result, op,
               verifier, ret>>

\* __post_init__ that never auto-loads
RehydrateNothing(rows, session_id) == <<>>

\* the messages of ConversationSession(session_id, storage=path) after
\* __post_init__: the loaded list, or the empty default when the load raised
Rehydrate(rows, session_id) ==
  IF LoadMessages(rows, session_id).status = "ok"
  THEN LoadMessages(rows, session_id).msgs
  ELSE <<>>

\* a new ConversationSession(session_id, storage=path) on the database a closed
\* session left behind
SessionOpen ==
  /\ storage = "none"
  /\ closedLen >= 0
  /\ messages' = Rehydrate(db, SessionId)
  /\ storage' = "attached"
  /\ conn' = "open"
  /\ closedLen' = -1
  /\ op' = [kind |-> "open", index |-> Len(messages'),
            field |-> LoadMessages(db, SessionId).status, other |-> -1]
  /\ UNCHANGED <<db, warned, loaded, probe, result, verifier, ret>>

\* LogVerifier(trusted).verify(session.get_chain())
VerifyChain ==
  /\ probe' = GetChain(messages)
  /\ result' = Verify(probe', TrustedKeys)
  /\ op' = [NoOp EXCEPT !.kind = "verify"]
  /\ UNCHANGED <<messages, storage, conn, db, warned, closedLen, loaded, verifier, ret>>

Next ==
  \/ \E content \in Contents, caller \in Callers, timestamp \in Timestamps,
        created \in CreatedTimes, io_ok \in BOOLEAN :
       SessionAppend(content, caller, timestamp, created, io_ok)
  \/ SessionClose
  \/ \E session_id \in {SessionId, "evil"} : ReaderLoad(session_id)

Spec == InitStored /\ [][Next]_vars

(***************************************************************************)
(* Tampering with a copy of the chain before it is verified                 *)
(* (tests/test_verify.py: dataclasses.replace on one entry of get_chain()). *)
(***************************************************************************)
MessageFields ==
  {"id", "timestamp", "session_id", "sequence", "agent_id", "agent_role",
   "content", "content_type", "prev_hash"}

ProofFields ==
  {"type", "created", "verification_method", "proof_purpose", "proof_value"}

DeadBeef == Str("deadbeefdeadbeefdeadbeefdeadbeefdeadbeefdeadbeefdeadbeefdeadbeef")

\* the signing key of an agent
SignerOf(agent_id) == (CHOOSE c \in Callers : c.agent_id = agent_id).signer

\* canonical_json(msg.to_dict()) of the entry taken unsigned: all ten fields,
\* proof = {}
UnsignedBytes(msg) == CanonicalJson(ToDict([msg EXCEPT !.proof = NoProof]))

\* the values a tamperer writes into a field of entry k of chain; for
\* proof_value also the agent's own signature over the unsigned entry's
\* to_dict bytes
TamperValues(chain, k, field) ==
  CASE field = "id"           -> {Str("forged-id")}
    [] field = "timestamp"    -> {"1999-12-31T23:59:59.000Z"}
    [] field = "session_id"   -> {"evil"}
    [] field = "sequence"     -> (0..MaxLen) \cup {99}
    [] field = "agent_id"     -> {"agent:alice", "agent:bob", "agent:eve"}
    [] field = "agent_role"   -> {"user", "assistant", "system"}
    [] field = "content"      -> Contents \cup {"TAMPERED"}
    [] field = "content_type" -> {"text/html"}
    [] field = "prev_hash"    ->
         {Str(""), DeadBeef} \cup {MessageHash(chain[j]) : j \in 1..Len(chain)}
    [] field = "type"         -> {"JsonWebSignature2020"}
    [] field = "created"      -> {"1999-12-31T23:59:59.000Z"}
    [] field = "verification_method" ->
         {PublicKeyB64url(key) : key \in {"key:alice", "key:bob", "key:eve"}}
    [] field = "proof_purpose" -> {"authentication"}
    [] field = "proof_value"  ->
         {Str("")}
         \cup {chain[j].proof.proof_value : j \in 1..Len(chain)}
         \cup {B64urlEncode(SignBytes("key:eve", CanonicalJson(Payload(chain[k]))))}
         \cup {B64urlPadded(chain[k].proof.proof_value)}
         \cup {B64urlEncode(SignBytes(SignerOf(chain[k].agent_id),
                                      UnsignedBytes(chain[k])))}

\* dataclasses.replace(chain[k], field=value) on a copy of the chain
ReplaceField(chain, k, field, value) ==
  IF field \in ProofFields
  THEN [chain EXCEPT ![k].proof[field] = value]
  ELSE [chain EXCEPT ![k][field] = value]

FieldOf(msg, field) ==
  IF field \in ProofFields THEN msg.proof[field] ELSE msg[field]

\* the copy with the entries at positions i and j exchanged
SwapEntries(chain, i, j) ==
  [chain EXCEPT ![i] = chain[j], ![j] = chain[i]]

\* verify a copy of the chain in which one field of one entry was replaced
TamperField(k, field, value) ==
  /\ k \in 1..Len(messages)
  /\ value # FieldOf(messages[k], field)
  /\ probe' = ReplaceField(GetChain(messages), k, field, value)
  /\ result' = Verify(probe', TrustedKeys)
  /\ op' = [kind |-> "field", index |-> k - 1, field |-> field, other |-> -1]
  /\ UNCHANGED <<messages, storage, conn, db, warned, closedLen, loaded, verifier, ret>>

\* verify a copy of the chain in which one entry lost its proof:
\* dataclasses.replace(chain[k], proof=None)
TamperProof(k) ==
  /\ k \in 1..Len(messages)
  /\ probe' = [GetChain(messages) EXCEPT ![k].proof = NoProof]
  /\ result' = Verify(probe', TrustedKeys)
  /\ op' = [kind |-> "unsign", index |-> k - 1, field |-> "proof", other |-> -1]
  /\ UNCHANGED <<messages, storage, conn, db, warned, closedLen, loaded, verifier, ret>>

\* verify a copy of the chain in which two entries were exchanged
TamperSwap(i, j) ==
  /\ i \in 1..Len(messages)
  /\ j \in 1..Len(messages)
  /\ i < j
  /\ probe' = SwapEntries(GetChain(messages), i, j)
  /\ result' = Verify(probe', TrustedKeys)
  /\ op' = [kind |-> "swap", index |-> i - 1, field |-> "", other |-> j - 1]
  /\ UNCHANGED <<messages, storage, conn, db, warned, closedLen, loaded, verifier, ret>>

\* a run builds a chain by appends and ends by handing one copy, intact or
\* tampered, to the verifier
NextVerify ==
  \/ \E content \in Contents, caller \in Callers, timestamp \in Timestamps,
        created \in CreatedTimes :
       op.kind = "none" /\ SessionAppend(content, caller, timestamp, created, TRUE)
  \/ op.kind = "none" /\ VerifyChain
  \/ \E k \in 1..Len(messages), field \in MessageFields \cup ProofFields :
       \E value \in TamperValues(messages, k, field) :
         op.kind = "none" /\ TamperField(k, field, value)
  \/ \E i \in 1..Len(messages), j \in 1..Len(messages) :
       op.kind = "none" /\ TamperSwap(i, j)
  \/ \E k \in 1..Len(messages) : op.kind = "none" /\ TamperProof(k)

SpecVerify == InitMemory /\ [][NextVerify]_vars

\* a session writes to its database, every write succeeding, and is closed; a
\* second session is then constructed on the same database and continues the
\* chain
NextReopen ==
  \/ \E content \in Contents, caller \in Callers, timestamp \in Timestamps,
        created \in CreatedTimes :
       SessionAppend(content, caller, timestamp, created, TRUE)
  \/ SessionClose
  \/ op.kind = "none" /\ SessionOpen

SpecReopen == InitStored /\ [][NextReopen]_vars

(***************************************************************************)
(* A SQLiteStorage handle used directly (tests/test_storage.py).            *)
(***************************************************************************)
MaxRows == 2

StorageSessions == {SessionId, "s2"}

StorageSequences == 0..(MaxLen - 1)

\* ISO-8601 timestamps in ascending string order
StorageTimestamps == <<"2026-01-31T14:00:00.000Z", "2026-01-31T15:00:00.000Z">>

\* position of a timestamp in the string order SQLite's MAX and ORDER BY use
TimestampRank(timestamp) ==
  CHOOSE i \in 1..Len(StorageTimestamps) : StorageTimestamps[i] = timestamp

QueryLimits == {0, 1, 50}

StorageContents == {"hello"}

ErrUnsigned == "Cannot persist unsigned message"

ErrClosed == "Storage connection is closed"

\* the prev_hash of an entry written for position sequence of a session: the
\* stored digest of the row before it when there is one
StoredPrevHash(rows, session_id, sequence) ==
  IF sequence = 0 THEN Str("")
  ELSE IF \E r \in rows : r.session_id = session_id /\ r.sequence = sequence - 1
       THEN (CHOOSE r \in rows :
               r.session_id = session_id /\ r.sequence = sequence - 1).message_hash
       ELSE DeadBeef

\* the Message a caller builds and, when signing is TRUE, signs before it hands
\* it to SQLiteStorage.append
StorageEntry(rows, session_id, sequence, content, timestamp, signing) ==
  LET unsigned == Message(MsgId(sequence, "agent:alice"), timestamp, session_id,
                          sequence, "agent:alice", "user", content, "text/plain",
                          StoredPrevHash(rows, session_id, sequence), NoProof)
  IN  IF signing
      THEN SignMessage("key:alice", unsigned, StorageTimestamps[1])
      ELSE unsigned

\* the conn property that hands out a connection after close
ConnErrorNever(c) == "none"

\* the conn property: raises once _conn is None
ConnError(c) == IF c = "open" THEN "none" ELSE ErrClosed

\* SQLiteAppend that reaches for the connection before it looks at the proof
SQLiteAppendConnFirst(rows, c, msg) ==
  IF ConnError(c) # "none" THEN [error |-> ConnError(c), rows |-> rows]
  ELSE IF msg.proof = NoProof THEN [error |-> ErrUnsigned, rows |-> rows]
  ELSE [error |-> "none", rows |-> InsertOrIgnore(rows, RowOf(msg))]

\* SQLiteStorage.append on a handle whose _conn is c: the error raised and the
\* rows of the table afterwards
SQLiteAppend(rows, c, msg) ==
  IF msg.proof = NoProof THEN [error |-> ErrUnsigned, rows |-> rows]
  ELSE IF ConnError(c) # "none" THEN [error |-> ConnError(c), rows |-> rows]
  ELSE [error |-> "none", rows |-> InsertOrIgnore(rows, RowOf(msg))]

\* the exception load_messages ends with
LoadError(outcome) ==
  CASE outcome.status = "ok"           -> "none"
    [] outcome.status = "Chain broken" -> "Chain broken at sequence"
    [] OTHER                           -> outcome.status

\* MAX(timestamp) over the rows of one session
MaxTimestamp(rows, session_id) ==
  LET own == {r \in rows : r.session_id = session_id}
  IN  (CHOOSE r \in own :
         \A q \in own : TimestampRank(q.timestamp) <= TimestampRank(r.timestamp)).timestamp

\* the orders list_sessions can return: GROUP BY session_id ORDER BY
\* MAX(timestamp) DESC, ties in any order
ListSessions(rows) ==
  LET ids == {r.session_id : r \in rows}
      n   == Cardinality(ids)
  IN  { order \in [1..n -> ids] :
          /\ \A i, j \in 1..n : i # j => order[i] # order[j]
          /\ \A i, j \in 1..n :
               i < j => TimestampRank(MaxTimestamp(rows, order[i]))
                          >= TimestampRank(MaxTimestamp(rows, order[j])) }

\* SELECT COUNT(*) ... WHERE session_id = ?
GetMessageCount(rows, session_id) ==
  Cardinality({r \in rows : r.session_id = session_id})

\* get_latest_timestamp: None for a session without rows
NoTimestamp == [none |-> TRUE]

GetLatestTimestamp(rows, session_id) ==
  IF \E r \in rows : r.session_id = session_id
  THEN MaxTimestamp(rows, session_id)
  ELSE NoTimestamp

\* QueryMessages with ORDER BY sequence ASC LIMIT ?: the oldest entries
QueryMessagesOldest(rows, session_id, limit) ==
  LET selected == SelectSession(rows, session_id)
      list     == [k \in 1..Len(selected) |-> MessageOfRow(selected[k], session_id)]
  IN  IF limit < 0 \/ limit >= Len(list) THEN list
      ELSE SubSeq(list, 1, limit)

\* query_messages: ORDER BY sequence DESC LIMIT ?, reversed; no reload check.
\* A negative LIMIT is no limit in SQLite.
QueryMessages(rows, session_id, limit) ==
  LET selected == SelectSession(rows, session_id)
      list     == [k \in 1..Len(selected) |-> MessageOfRow(selected[k], session_id)]
  IN  IF limit < 0 \/ limit >= Len(list) THEN list
      ELSE SubSeq(list, Len(list) - limit + 1, Len(list))

\* SQLiteStorage(db_path) on a new database file, used without a session
InitStorage ==
  /\ messages = <<>>
  /\ storage = "none"
  /\ conn = "open"
  /\ db = {}
  /\ warned = {}
  /\ closedLen = -1
  /\ loaded = NotLoaded
  /\ probe = <<>>
  /\ result = VerificationResult(<<>>)
  /\ op = NoOp
  /\ verifier = NoVerifier
  /\ ret = NoCall

\* storage.append(msg)
StorageAppend(session_id, sequence, content, timestamp, signing) ==
  /\ Cardinality(db) < MaxRows
  /\ LET msg     == StorageEntry(db, session_id, sequence, content, timestamp, signing)
         outcome == SQLiteAppend(db, conn, msg)
     IN  /\ db' = outcome.rows
         /\ ret' = [call |-> "append", arg |-> msg, error |-> outcome.error,
                    value |-> <<>>]
  /\ UNCHANGED <<messages, storage, conn, warned, closedLen, loaded, probe, result,
                 op, verifier>>

\* storage.close(), also as the exit of "with SQLiteStorage(...) as storage"
StorageClose ==
  /\ conn' = "closed"
  /\ ret' = [call |-> "close", arg |-> <<>>, error |-> "none", value |-> <<>>]
  /\ UNCHANGED <<messages, storage, db, warned, closedLen, loaded, probe, result,
                 op, verifier>>

\* storage.load_messages(session_id)
StorageLoad(session_id) ==
  /\ LET outcome == LoadMessages(db, session_id)
     IN  ret' = IF ConnError(conn) # "none"
                THEN [call |-> "load_messages", arg |-> session_id,
                      error |-> ConnError(conn), value |-> <<>>]
                ELSE [call |-> "load_messages", arg |-> session_id,
                      error |-> LoadError(outcome), value |-> outcome.msgs]
  /\ UNCHANGED <<messages, storage, conn, db, warned, closedLen, loaded, probe,
                 result, op, verifier>>

\* storage.list_sessions()
StorageListSessions ==
  /\ IF ConnError(conn) # "none"
     THEN ret' = [call |-> "list_sessions", arg |-> <<>>, error |-> ConnError(conn),
                  value |-> <<>>]
     ELSE \E order \in ListSessions(db) :
            ret' = [call |-> "list_sessions", arg |-> <<>>, error |-> "none",
                    value |-> order]
  /\ UNCHANGED <<messages, storage, conn, db, warned, closedLen, loaded, probe,
                 result, op, verifier>>

\* storage.get_message_count(session_id)
StorageGetMessageCount(session_id) ==
  /\ ret' = IF ConnError(conn) # "none"
            THEN [call |-> "get_message_count", arg |-> session_id,
                  error |-> ConnError(conn), value |-> <<>>]
            ELSE [call |-> "get_message_count", arg |-> session_id,
                  error |-> "none", value |-> GetMessageCount(db, session_id)]
  /\ UNCHANGED <<messages, storage, conn, db, warned, closedLen, loaded, probe,
                 result, op, verifier>>

\* storage.get_latest_timestamp(session_id)
StorageGetLatestTimestamp(session_id) ==
  /\ ret' = IF ConnError(conn) # "none"
            THEN [call |-> "get_latest_timestamp", arg |-> session_id,
                  error |-> ConnError(conn), value |-> <<>>]
            ELSE [call |-> "get_latest_timestamp", arg |-> session_id,
                  error |-> "none", value |-> GetLatestTimestamp(db, session_id)]
  /\ UNCHANGED <<messages, storage, conn, db, warned, closedLen, loaded, probe,
                 result, op, verifier>>

\* storage.query_messages(session_id, limit)
StorageQueryMessages(session_id, limit) ==
  /\ ret' = IF ConnError(conn) # "none"
            THEN [call |-> "query_messages",
                  arg |-> [session_id |-> session_id, limit |-> limit],
                  error |-> ConnError(conn), value |-> <<>>]
            ELSE [call |-> "query_messages",
                  arg |-> [session_id |-> session_id, limit |-> limit],
                  error |-> "none", value |-> QueryMessages(db, session_id, limit)]
  /\ UNCHANGED <<messages, storage, conn, db, warned, closedLen, loaded, probe,
                 result, op, verifier>>

NextStorage ==
  \/ \E session_id \in StorageSessions, sequence \in StorageSequences,
        content \in StorageContents, i \in 1..Len(StorageTimestamps),
        signing \in BOOLEAN :
       StorageAppend(session_id, sequence, content, StorageTimestamps[i], signing)
  \/ StorageClose
  \/ \E session_id \in StorageSessions : StorageLoad(session_id)
  \/ StorageListSessions
  \/ \E session_id \in StorageSessions : StorageGetMessageCount(session_id)
  \/ \E session_id \in StorageSessions : StorageGetLatestTimestamp(session_id)
  \/ \E session_id \in StorageSessions, limit \in QueryLimits :
       StorageQueryMessages(session_id, limit)

SpecStorage == InitStorage /\ [][NextStorage]_vars

(***************************************************************************)
(* An auditor with direct access to the database file                       *)
(* (tests/test_storage.py: test_tamper_detection, test_verifier_with_storage). *)
(***************************************************************************)
\* REPLACE(canonical_json, old, new) on the value of one key of the object
ReplaceInJson(text, key, value) == [json |-> [text.json EXCEPT ![key] = value]]

\* the columns an UPDATE rewrites; "content" is the content inside canonical_json
SqlColumns == {"content", "sequence", "agent_id", "session_id"}

\* the values written into a column of the row at sequence of the session
SqlValues(rows, column) ==
  CASE column = "content"    -> Contents \cup {"TAMPERED"}
    [] column = "sequence"   -> (((-1)..MaxLen) \cup {99})
                                  \ {r.sequence : r \in {q \in rows : q.session_id = SessionId}}
    [] column = "agent_id"   -> {"agent:alice", "agent:bob", "agent:eve"}
    [] column = "session_id" -> {"evil"}

\* UPDATE messages SET column = value WHERE session_id = ? AND sequence = ?
SqlUpdate(rows, session_id, sequence, column, value) ==
  { IF r.session_id = session_id /\ r.sequence = sequence
    THEN IF column = "content"
         THEN [r EXCEPT !.canonical_json = ReplaceInJson(r.canonical_json, "content", value)]
         ELSE [r EXCEPT ![column] = value]
    ELSE r : r \in rows }

\* the sequence columns of two rows of the session exchanged
SqlSwap(rows, session_id, i, j) ==
  { IF r.session_id = session_id /\ r.sequence = i THEN [r EXCEPT !.sequence = j]
    ELSE IF r.session_id = session_id /\ r.sequence = j THEN [r EXCEPT !.sequence = i]
    ELSE r : r \in rows }

\* the one failure verify_from_storage reports when the chain cannot be loaded
StorageFailure == Failure(-1, "storage", "Failed to load chain from storage")

\* LogVerifier(trusted_keys).verify_from_storage(session_id, storage) on a
\* handle whose _conn is c; io_ok is whether the SELECT succeeds
VerifyFromStorage(rows, c, io_ok, session_id, trusted_keys) ==
  IF ConnError(c) # "none" \/ ~io_ok \/ LoadMessages(rows, session_id).status # "ok"
  THEN VerificationResult(<<StorageFailure>>)
  ELSE Verify(LoadMessages(rows, session_id).msgs, trusted_keys)

\* a direct UPDATE of one column of one stored row
DirectUpdate(sequence, column, value) ==
  /\ \E r \in db : /\ r.session_id = SessionId
                    /\ r.sequence = sequence
                    /\ (column # "content" => r[column] # value)
                    /\ (column = "content" =>
                          JsonLoads(r.canonical_json).content # value)
  /\ db' = SqlUpdate(db, SessionId, sequence, column, value)
  /\ op' = [kind |-> "sql", index |-> sequence, field |-> column, other |-> -1]
  /\ UNCHANGED <<messages, storage, conn, warned, closedLen, loaded, probe, result,
                 verifier, ret>>

\* a direct UPDATE that exchanges the positions of two stored rows
DirectSwap(i, j) ==
  /\ i < j
  /\ \E r \in db : r.session_id = SessionId /\ r.sequence = i
  /\ \E r \in db : r.session_id = SessionId /\ r.sequence = j
  /\ db' = SqlSwap(db, SessionId, i, j)
  /\ op' = [kind |-> "sql", index |-> i, field |-> "swap", other |-> j]
  /\ UNCHANGED <<messages, storage, conn, warned, closedLen, loaded, probe, result,
                 verifier, ret>>

\* DELETE FROM messages WHERE session_id = ? AND sequence >= ?
SqlDeleteTail(rows, session_id, sequence) ==
  {r \in rows : ~(r.session_id = session_id /\ r.sequence >= sequence)}

\* a direct DELETE of the rows of the session from a sequence number on
DirectDeleteTail(sequence) ==
  /\ \E r \in db : r.session_id = SessionId /\ r.sequence >= sequence
  /\ db' = SqlDeleteTail(db, SessionId, sequence)
  /\ op' = [kind |-> "delete", index |-> sequence, field |-> "tail", other |-> -1]
  /\ UNCHANGED <<messages, storage, conn, warned, closedLen, loaded, probe, result,
                 verifier, ret>>

\* verifier.verify_from_storage(session_id, storage) with the original trust map
StorageVerify(session_id, handle, io_ok) ==
  /\ result' = VerifyFromStorage(db, handle, io_ok, session_id, TrustedKeys)
  /\ ret' = [call |-> "verify_from_storage",
             arg |-> [session_id |-> session_id, handle |-> handle, io_ok |-> io_ok],
             error |-> "none", value |-> <<>>]
  /\ UNCHANGED <<messages, storage, conn, db, warned, closedLen, loaded, probe, op,
                 verifier>>


(***************************************************************************)
(* Constructing a LogVerifier (verify/verifier.py: LogVerifier.__init__).   *)
(***************************************************************************)
\* the trust maps handed to LogVerifier: every map from some of the agents to
\* some of the public keys, the empty map among them
TrustMaps ==
  UNION { [agents -> {PublicKeyB64url(c.signer) : c \in Callers}] :
            agents \in SUBSET {c.agent_id : c \in Callers} }

\* the argument of LogVerifier(trusted_keys): a map, or None
TrustArguments ==
  {[given |-> TRUE, map |-> trusted_keys] : trusted_keys \in TrustMaps}
  \cup {[given |-> FALSE, map |-> <<>>]}

ErrTrustRequired == "trusted_keys map is required for signature verification"

\* LogVerifier.__init__ that accepts whatever it is given
NewLogVerifierUnchecked(argument) ==
  [error |-> "none", verifier |-> [constructed |-> TRUE, trusted_keys |-> argument.map]]

\* LogVerifier.__init__: "not trusted_keys" holds for None and for the empty map
NewLogVerifier(argument) ==
  IF ~argument.given \/ DOMAIN argument.map = {}
  THEN [error |-> ErrTrustRequired, verifier |-> NoVerifier]
  ELSE [error |-> "none",
        verifier |-> [constructed |-> TRUE, trusted_keys |-> argument.map]]

\* verifier = LogVerifier(trusted_keys); a failed construction leaves the
\* caller with the verifier it had
ConstructVerifier(argument) ==
  /\ ret' = [call |-> "LogVerifier", arg |-> argument,
             error |-> NewLogVerifier(argument).error, value |-> <<>>]
  /\ verifier' = IF NewLogVerifier(argument).error = "none"
                 THEN NewLogVerifier(argument).verifier
                 ELSE verifier
  /\ UNCHANGED <<messages, storage, conn, db, warned, closedLen, loaded, probe,
                 result, op>>

\* verifier.verify(session.get_chain()) with the verifier last constructed
VerifierVerify ==
  /\ verifier.constructed
  /\ probe' = GetChain(messages)
  /\ result' = Verify(probe', verifier.trusted_keys)
  /\ op' = [NoOp EXCEPT !.kind = "verify"]
  /\ UNCHANGED <<messages, storage, conn, db, warned, closedLen, loaded, verifier,
                 ret>>

\* a session in memory grows while verifiers are constructed with different
\* trust maps; the run ends when the verifier last constructed verifies the chain
NextTrust ==
  \/ \E content \in Contents, caller \in Callers, timestamp \in Timestamps,
        created \in CreatedTimes :
       op.kind = "none" /\ SessionAppend(content, caller, timestamp, created, TRUE)
  \/ \E argument \in TrustArguments : op.kind = "none" /\ ConstructVerifier(argument)
  \/ op.kind = "none" /\ VerifierVerify

SpecTrust == InitMemory /\ [][NextTrust]_vars

(***************************************************************************)
(* verify on entries with malformed proof values and on trust maps with     *)
(* malformed keys (verify/verifier.py: phase 3).                            *)
(***************************************************************************)
\* proof values that are no base64url of a signature
MalformedProofValues == {Str("A"), Str("A=A"), Str("@@@@")}

\* a trust-map value that is no public key
MalformedKey == Str("not-a-key")

\* the trust maps of the signers in which some keys are malformed
MalformedTrustMaps ==
  { [a \in DOMAIN TrustedKeys |-> IF a \in bad THEN MalformedKey ELSE TrustedKeys[a]] :
      bad \in SUBSET DOMAIN TrustedKeys }

\* LogVerifier(trusted_keys).verify(chain) as a call: the exception that
\* leaves it, or its result.  b64url_decode of proof_value is called for every
\* entry in phase 3 outside the try block (line 114).
VerifyCall(chain, trusted_keys) ==
  LET raising == { k \in 1..Len(chain) :
                     /\ chain[k].proof # NoProof
                     /\ B64urlDecodeError(chain[k].proof.proof_value) # "none" }
  IN  IF chain # <<>> /\ Phase1(chain) = <<>> /\ raising # {}
      THEN [error  |-> B64urlDecodeError(
                         chain[CHOOSE k \in raising : \A j \in raising : k <= j]
                           .proof.proof_value),
            result |-> VerificationResult(<<>>)]
      ELSE [error |-> "none", result |-> Verify(chain, trusted_keys)]

\* verifier.verify(chain) on a copy of the chain in which the proof value of
\* entry k was replaced (k = 0: on the chain as it is)
MalformedVerify(k, value, trusted_keys) ==
  /\ k \in 0..Len(messages)
  /\ probe' = IF k = 0 THEN GetChain(messages)
              ELSE ReplaceField(GetChain(messages), k, "proof_value", value)
  /\ ret' = [call |-> "verify", arg |-> trusted_keys,
             error |-> VerifyCall(probe', trusted_keys).error, value |-> <<>>]
  /\ result' = VerifyCall(probe', trusted_keys).result
  /\ op' = [kind |-> "malformed", index |-> k - 1, field |-> "proof_value", other |-> -1]
  /\ UNCHANGED <<messages, storage, conn, db, warned, closedLen, loaded, verifier>>

\* a run builds a chain by appends and ends by handing a copy with one
\* malformed proof value, or none, to a verifier whose trust map may hold
\* malformed keys
NextMalformed ==
  \/ \E content \in Contents, caller \in Callers, timestamp \in Timestamps,
        created \in CreatedTimes :
       op.kind = "none" /\ SessionAppend(content, caller, timestamp, created, TRUE)
  \/ \E k \in 0..MaxLen, value \in MalformedProofValues,
        trusted_keys \in MalformedTrustMaps :
       op.kind = "none" /\ MalformedVerify(k, value, trusted_keys)

SpecMalformed == InitMemory /\ [][NextMalformed]_vars

(***************************************************************************)
(* A session constructed on rows that were edited (chain/session.py:        *)
(* __post_init__ over storage/sqlite.py: load_messages).                    *)
(***************************************************************************)
\* the appends followed after a session was constructed on stored rows
MaxAfterOpen == 1

\* a session persists its chain; the content of one stored row is then edited
\* or not; the session is closed, a new one is constructed on the database and
\* appended to
NextTampered ==
  \/ \E content \in Contents, caller \in Callers, timestamp \in Timestamps,
        created \in CreatedTimes :
       /\ \/ op.kind = "none"
          \/ op.kind = "open" /\ Len(messages) < op.index + MaxAfterOpen
       /\ SessionAppend(content, caller, timestamp, created, TRUE)
  \/ \E sequence \in 0..(MaxLen - 1) : \E value \in SqlValues(db, "content") :
       /\ op.kind = "none"
       /\ DirectUpdate(sequence, "content", value)
  \/ op.kind # "open" /\ SessionClose
  \/ op.kind # "open" /\ SessionOpen

SpecTampered == InitStored /\ [][NextTampered]_vars

(***************************************************************************)
(* Two session objects on one database (chain/session.py over               *)
(* storage/sqlite.py).  The second session's messages is the list its       *)
(* __post_init__ got from load_messages: it is kept in loaded.msgs, and the  *)
(* second session's appends extend that list.                               *)
(***************************************************************************)
\* a second ConversationSession(session_id, storage=path) is constructed on
\* the database while the first is open
PeerOpen ==
  /\ loaded' = LoadMessages(db, SessionId)
  /\ op' = [kind |-> "fork", index |-> Len(loaded'.msgs), field |-> loaded'.status,
            other |-> -1]
  /\ UNCHANGED <<messages, storage, conn, db, warned, closedLen, probe, result,
                 verifier, ret>>

\* append on the second session, whose storage handle is open
PeerAppend(content, caller, timestamp, created) ==
  /\ Len(loaded.msgs) < MaxLen
  /\ LET unsigned == Unsigned(loaded.msgs, SessionId, content, caller.role,
                              caller.agent_id, timestamp, "text/plain")
         signed   == SignMessage(caller.signer, unsigned, created)
     IN  /\ loaded' = [loaded EXCEPT !.msgs = Append(loaded.msgs, signed)]
         /\ db' = InsertOrIgnore(db, RowOf(signed))
         /\ ret' = [call |-> "append", arg |-> <<>>, error |-> "none",
                    value |-> signed]
  /\ UNCHANGED <<messages, storage, conn, warned, closedLen, probe, result, op,
                 verifier>>

\* a session persists a chain; a second session is constructed on the same
\* rows; then both append in any interleaving
NextRace ==
  \/ \E content \in Contents, caller \in Callers, timestamp \in Timestamps,
        created \in CreatedTimes :
       /\ \/ op.kind = "none"
          \/ op.kind = "fork" /\ Len(messages) < op.index + MaxAfterOpen
       /\ SessionAppend(content, caller, timestamp, created, TRUE)
  \/ op.kind = "none" /\ PeerOpen
  \/ \E content \in Contents, caller \in Callers, timestamp \in Timestamps,
        created \in CreatedTimes :
       /\ op.kind = "fork"
       /\ Len(loaded.msgs) < op.index + MaxAfterOpen
       /\ PeerAppend(content, caller, timestamp, created)

SpecRace == InitStored /\ [][NextRace]_vars

(***************************************************************************)
(* The LangGraph callback handler (integration/langgraph.py).  The auditor *)
(* owns the session; the handler object's _seen set is carried in ret as   *)
(* the state of the callback object after the event it last received.      *)
(***************************************************************************)
\* ROLE_MAP.get(msg.type, "user")
RoleMap(type) ==
  CASE type = "human"  -> "user"
    [] type = "ai"     -> "assistant"
    [] type = "tool"   -> "tool"
    [] type = "system" -> "system"
    [] OTHER           -> "user"

\* msg.type of the message objects delivered ("function" has no ROLE_MAP entry)
LgTypes == {"human", "ai", "function"}

\* the (type, content) message objects the framework delivers: one type with
\* two contents, one content under every type
LgMessages ==
  { m \in [type : LgTypes, content : Contents] :
      m.type = "human" \/ m.content = "hello" }

\* key_registry of the auditor: agent name -> key pair
LgKeyRegistry == [user |-> "key:alice", tool |-> "key:bob"]

\* f"agent:{agent_name}"
LgAgentId(agent_name) ==
  CASE agent_name = "user" -> "agent:user"
    [] agent_name = "tool" -> "agent:tool"

\* an event carries up to this many message objects
MaxEvent == 2

\* the message lists of an event, flattened in iteration order
LgPayloads == UNION { [1..n -> LgMessages] : n \in 0..MaxEvent }

LgEvents == {"on_chat_model_start", "on_chat_model_end"}

\* handler._seen
Seen == IF ret.call \in LgEvents THEN ret.value.seen ELSE {}

\* _log_message without the _seen test
LogMessageUnfiltered(st, msg, timestamp, created) ==
  LET role == RoleMap(msg.type)
  IN  IF role \in DOMAIN LgKeyRegistry
        THEN LET unsigned == Unsigned(st.msgs, SessionId, msg.content, role,
                                      LgAgentId(role), timestamp, "text/plain")
                 signed   == SignMessage(LgKeyRegistry[role], unsigned, created)
             IN  [seen |-> st.seen \cup {msg},
                  msgs |-> Append(st.msgs, signed),
                  rows |-> InsertOrIgnore(st.rows, RowOf(signed))]
        ELSE [st EXCEPT !.seen = st.seen \cup {msg}]

\* _log_message, with auditor.log and session.append on an attached storage:
\* st = [seen, msgs, rows] is handler._seen, session.messages and the table
LogMessage(st, msg, timestamp, created) ==
  IF msg \in st.seen
    THEN st
    ELSE LET role == RoleMap(msg.type)
             st1  == [st EXCEPT !.seen = st.seen \cup {msg}]
         IN  IF role \in DOMAIN LgKeyRegistry
               THEN LET unsigned == Unsigned(st.msgs, SessionId, msg.content, role,
                                             LgAgentId(role), timestamp, "text/plain")
                        signed   == SignMessage(LgKeyRegistry[role], unsigned, created)
                    IN  [st1 EXCEPT !.msgs = Append(st.msgs, signed),
                                    !.rows = InsertOrIgnore(st.rows, RowOf(signed))]
               ELSE st1

\* the loop over the delivered message objects
RECURSIVE LogMessages(_, _, _, _)
LogMessages(st, payload, timestamp, created) ==
  IF payload = <<>>
    THEN st
    ELSE LogMessages(LogMessage(st, Head(payload), timestamp, created),
                     Tail(payload), timestamp, created)

\* on_chat_model_start: every message of every message list
OnChatModelStart(payload, timestamp, created) ==
  LET st == LogMessages([seen |-> Seen, msgs |-> messages, rows |-> db],
                        payload, timestamp, created)
  IN  /\ Len(st.msgs) <= MaxLen
      /\ messages' = st.msgs
      /\ db' = st.rows
      /\ ret' = [call |-> "on_chat_model_start", arg |-> payload,
                 error |-> "none", value |-> [seen |-> st.seen]]
      /\ UNCHANGED <<storage, conn, warned, closedLen, loaded, probe, result, op,
                     verifier>>

\* on_chat_model_end: the message of every generation of the response
OnChatModelEnd(payload, timestamp, created) ==
  LET st == LogMessages([seen |-> Seen, msgs |-> messages, rows |-> db],
                        payload, timestamp, created)
  IN  /\ Len(st.msgs) <= MaxLen
      /\ messages' = st.msgs
      /\ db' = st.rows
      /\ ret' = [call |-> "on_chat_model_end", arg |-> payload,
                 error |-> "none", value |-> [seen |-> st.seen]]
      /\ UNCHANGED <<storage, conn, warned, closedLen, loaded, probe, result, op,
                     verifier>>

NextLangGraph ==
  \/ \E payload \in LgPayloads, timestamp \in Timestamps, created \in CreatedTimes :
       OnChatModelStart(payload, timestamp, created)
  \/ \E payload \in LgPayloads, timestamp \in Timestamps, created \in CreatedTimes :
       OnChatModelEnd(payload, timestamp, created)

SpecLangGraph == InitStored /\ [][NextLangGraph]_vars

(***************************************************************************)
(* The verify command of the CLI (cli/main.py).                            *)
(***************************************************************************)
\* trusted_keys = {} of the verify command
CliTrustedKeys == <<>>

\* attested-logs verify SESSION_ID: the exit code of the process and what
\* ended it.  raise typer.Exit(1) and an exception nobody catches both end the
\* process with code 1; a command that returns ends it with code 0.
CliVerifyExit(rows, db_exists, session_id) ==
  IF ~db_exists
  THEN [exit_code |-> 1, error |-> "Database file not found"]
  ELSE LET made == NewLogVerifier([given |-> TRUE, map |-> CliTrustedKeys])
           res  == VerifyFromStorage(rows, "open", TRUE, session_id,
                                     made.verifier.trusted_keys)
       IN  IF made.error # "none"
           THEN [exit_code |-> 1, error |-> made.error]
           ELSE IF res.is_valid
                THEN [exit_code |-> 0, error |-> "none"]
                ELSE [exit_code |-> 0, error |-> "Verification failed for session"]

\* one run of the verify command on the database
CliVerify(session_id, db_exists) ==
  /\ ret' = [call |-> "cli verify",
             arg |-> [session_id |-> session_id, db_exists |-> db_exists],
             error |-> CliVerifyExit(db, db_exists, session_id).error,
             value |-> CliVerifyExit(db, db_exists, session_id).exit_code]
  /\ UNCHANGED <<messages, storage, conn, db, warned, closedLen, loaded, probe,
                 result, op, verifier>>

\* a session persists its chain; the rows are then left alone or changed once
\* behind its back; the run ends with verify_from_storage or with the verify
\* command
NextAudit ==
  \/ \E content \in Contents, caller \in Callers, timestamp \in Timestamps,
        created \in CreatedTimes :
       /\ op.kind = "none"
       /\ ret.call = "none"
       /\ SessionAppend(content, caller, timestamp, created, TRUE)
  \/ \E sequence \in 0..(MaxLen - 1), column \in SqlColumns :
       \E value \in SqlValues(db, column) :
         /\ op.kind = "none"
         /\ ret.call = "none"
         /\ DirectUpdate(sequence, column, value)
  \/ \E i \in 0..(MaxLen - 1), j \in 0..(MaxLen - 1) :
       /\ op.kind = "none"
       /\ ret.call = "none"
       /\ DirectSwap(i, j)
  \/ \E sequence \in 0..(MaxLen - 1) :
       /\ op.kind = "none"
       /\ ret.call = "none"
       /\ DirectDeleteTail(sequence)
  \/ \E session_id \in {SessionId, "evil"}, handle \in {"open", "closed"},
        io_ok \in BOOLEAN :
       /\ ret.call = "none"
       /\ StorageVerify(session_id, handle, io_ok)
  \/ \E session_id \in {SessionId, "evil"}, db_exists \in BOOLEAN :
       /\ ret.call = "none"
       /\ CliVerify(session_id, db_exists)

SpecAudit == InitStored /\ [][NextAudit]_vars

(***************************************************************************)
(* A caller reading a session (chain/session.py: get_chain, get_last_hash). *)
(***************************************************************************)
\* get_chain that hands out the session's own list
GetChainResultShared(msgs) == [list |-> "session", items |-> msgs]

\* what get_chain returns: a new list object holding the same entries
GetChainResult(msgs) == [list |-> "copy", items |-> GetChain(msgs)]

\* an entry of the caller's own making
Forged ==
  Message(Str("forged-id"), "1999-12-31T23:59:59.000Z", "evil", 99, "agent:eve",
          "system", "TAMPERED", "text/plain", DeadBeef, NoProof)

ListEdits == {"add", "remove", "replace"}

\* list.append(x), del list[k - 1], list[k - 1] = x
ListEdit(items, edit, k, x) ==
  CASE edit = "add"     -> Append(items, x)
    [] edit = "remove"  -> SubSeq(items, 1, k - 1) \o SubSeq(items, k + 1, Len(items))
    [] edit = "replace" -> [items EXCEPT ![k] = x]

\* chain = session.get_chain()
SessionGetChain ==
  /\ ret' = [call |-> "get_chain", arg |-> <<>>, error |-> "none",
             value |-> GetChainResult(messages)]
  /\ op' = NoOp
  /\ UNCHANGED <<messages, storage, conn, db, warned, closedLen, loaded, probe,
                 result, verifier>>

\* session.get_last_hash()
SessionGetLastHash ==
  /\ ret' = [call |-> "get_last_hash", arg |-> <<>>, error |-> "none",
             value |-> GetLastHash(messages)]
  /\ op' = NoOp
  /\ UNCHANGED <<messages, storage, conn, db, warned, closedLen, loaded, probe,
                 result, verifier>>

\* the caller changes the list get_chain returned; the session's list changes
\* with it exactly when both are one list object
CallerEdit(edit, k) ==
  /\ ret.call = "get_chain"
  /\ op.kind = "none"
  /\ LET target == IF ret.value.list = "session" THEN messages ELSE ret.value.items
     IN  /\ edit # "add" => k \in 1..Len(target)
         /\ edit = "add" => k = Len(target) + 1
         /\ ret' = [ret EXCEPT !.value.items = ListEdit(target, edit, k, Forged)]
         /\ messages' = IF ret.value.list = "session"
                        THEN ListEdit(target, edit, k, Forged)
                        ELSE messages
  /\ op' = [kind |-> "edit", index |-> k - 1, field |-> edit, other |-> -1]
  /\ UNCHANGED <<storage, conn, db, warned, closedLen, loaded, probe, result,
                 verifier>>

\* a storage-backed session is appended to, read and closed while a caller
\* edits the lists it got from get_chain
NextSession ==
  \/ \E content \in Contents, caller \in Callers, timestamp \in Timestamps,
        created \in CreatedTimes :
       SessionAppend(content, caller, timestamp, created, TRUE)
  \/ SessionClose
  \/ SessionGetChain
  \/ SessionGetLastHash
  \/ \E edit \in ListEdits, k \in 1..(MaxLen + 1) : CallerEdit(edit, k)

SpecSession == InitStored /\ [][NextSession]_vars

(***************************************************************************)
(* Properties.                                                              *)
(***************************************************************************)
HasFailure(res, index, category) ==
  \E n \in 1..Len(res.failures) :
    res.failures[n].index = index /\ res.failures[n].category = category

HasCategory(res, category) ==
  \E n \in 1..Len(res.failures) : res.failures[n].category = category

\* C1: a chain built by sequential appends, every agent signing with its own
\* key, verifies valid with an empty failure list under the trust map of those
\* keys.
C1_AppendedChainVerifies ==
  op.kind = "verify" => (result.is_valid /\ result.failures = <<>>)

C1_Witness ==
  /\ op.kind = "verify"
  /\ Len(probe) = MaxLen
  /\ \E i, j \in 1..Len(probe) : probe[i].agent_id # probe[j].agent_id
  /\ result.is_valid

\* C2: after any appends on a session created empty, the entry at position i
\* has sequence i, the session's session_id, and a proof with a non-empty
\* proof_value.
C2_EntriesNumberedAndSigned ==
  \A k \in 1..Len(messages) :
    /\ messages[k].sequence = k - 1
    /\ messages[k].session_id = SessionId
    /\ messages[k].proof # NoProof
    /\ messages[k].proof.proof_value # Str("")

C2_Witness ==
  /\ Len(messages) = MaxLen
  /\ messages[MaxLen].sequence = MaxLen - 1
  /\ messages[MaxLen].proof # NoProof

\* C3: the first entry has prev_hash "", every later entry has prev_hash equal
\* to the digest (proof included) of its predecessor, and get_last_hash() is
\* none for an empty session and the digest of the last entry otherwise.
C3_ChainLinked ==
  /\ messages # <<>> => messages[1].prev_hash = Str("")
  /\ \A k \in 2..Len(messages) :
       messages[k].prev_hash = Sha256Hex(CanonicalJson(ToDict(messages[k - 1])))
  /\ (GetLastHash(messages) = NoHash) <=> (messages = <<>>)
  /\ messages # <<>> =>
       GetLastHash(messages) = Sha256Hex(CanonicalJson(ToDict(messages[Len(messages)])))

C3_Witness ==
  /\ Len(messages) = MaxLen
  /\ messages[MaxLen].prev_hash = MessageHash(messages[MaxLen - 1])
  /\ messages[MaxLen - 1].proof # NoProof

\* C4: replacing any field of any entry of a valid chain (a field of the proof
\* block included) with a different value makes verify return invalid with at
\* least one failure.
C4_AnyFieldTamperDetected ==
  op.kind = "field" => (~result.is_valid /\ Len(result.failures) >= 1)

\* C5: exchanging two entries of a valid chain makes verify return invalid with
\* a failure of category sequence or hash_chain.
C5_SwapDetected ==
  op.kind = "swap" =>
    /\ ~result.is_valid
    /\ HasCategory(result, "sequence") \/ HasCategory(result, "hash_chain")

C5_Witness ==
  /\ op.kind = "swap"
  /\ Len(probe) = MaxLen
  /\ op.index = 0
  /\ op.other = MaxLen - 1
  /\ ~result.is_valid

\* C6: replacing the content of entry i with different text makes verify return
\* invalid with a failure of category signature at index i.
C6_ContentTamperDetected ==
  (op.kind = "field" /\ op.field = "content") =>
    /\ ~result.is_valid
    /\ HasFailure(result, op.index, "signature")

C6_Witness ==
  /\ op.kind = "field"
  /\ op.field = "content"
  /\ Len(probe) = MaxLen
  /\ op.index = 1
  /\ probe[2].content = "TAMPERED"
  /\ HasFailure(result, 1, "signature")

\* C7: replacing prev_hash of entry i >= 1 with a value other than the digest of
\* entry i-1 makes verify return invalid with a failure of category hash_chain
\* at index i.
C7_BrokenLinkDetected ==
  (op.kind = "field" /\ op.field = "prev_hash" /\ op.index >= 1) =>
    /\ ~result.is_valid
    /\ HasFailure(result, op.index, "hash_chain")

C7_Witness ==
  /\ op.kind = "field"
  /\ op.field = "prev_hash"
  /\ op.index = MaxLen - 1
  /\ probe[MaxLen].prev_hash = DeadBeef
  /\ HasFailure(result, MaxLen - 1, "hash_chain")

\* C8 as stated: changing session_id of entry i of a valid chain of length >= 2
\* makes verify return invalid with a failure of category session reported at
\* index i.
C8_SessionTamperAtIndex ==
  (op.kind = "field" /\ op.field = "session_id" /\ Len(probe) >= 2) =>
    /\ ~result.is_valid
    /\ HasFailure(result, op.index, "session")

\* C8 as amended: the result is invalid with a session failure; for i >= 1 it
\* is reported at index i, and for i = 0 (the entry every other one is compared
\* with) it is reported at every index 1..n-1 and not at index 0.
C8_SessionTamperReported ==
  (op.kind = "field" /\ op.field = "session_id" /\ Len(probe) >= 2) =>
    /\ ~result.is_valid
    /\ HasCategory(result, "session")
    /\ op.index >= 1 => HasFailure(result, op.index, "session")
    /\ op.index = 0 =>
         /\ ~HasFailure(result, 0, "session")
         /\ \A j \in 1..(Len(probe) - 1) : HasFailure(result, j, "session")

C8_Witness ==
  /\ op.kind = "field"
  /\ op.field = "session_id"
  /\ Len(probe) = MaxLen
  /\ op.index = 0
  /\ probe[1].session_id = "evil"
  /\ HasFailure(result, MaxLen - 1, "session")

\* C9: changing sequence of entry i to a value other than i makes verify return
\* invalid with a failure of category sequence at index i.
C9_SequenceTamperDetected ==
  (op.kind = "field" /\ op.field = "sequence") =>
    /\ ~result.is_valid
    /\ HasFailure(result, op.index, "sequence")

C9_Witness ==
  /\ op.kind = "field"
  /\ op.field = "sequence"
  /\ op.index = 1
  /\ probe[2].sequence = 99
  /\ HasFailure(result, 1, "sequence")

ReadCalls ==
  {"load_messages", "list_sessions", "get_message_count", "get_latest_timestamp",
   "query_messages"}

\* C11: on an open storage, append of a signed entry whose (session_id,
\* sequence) is already stored raises no error and leaves every stored row as
\* it was, also when the entry differs from the stored one in other fields;
\* load_messages returns what it returned before.
C11_AppendExistingKeyIgnored ==
  [][ ( /\ conn = "open"
        /\ ret'.call = "append"
        /\ ret'.arg.proof # NoProof
        /\ \E r \in db : /\ r.session_id = ret'.arg.session_id
                          /\ r.sequence = ret'.arg.sequence )
      => /\ ret'.error = "none"
         /\ db' = db
         /\ \A session_id \in StorageSessions :
              LoadMessages(db', session_id) = LoadMessages(db, session_id) ]_vars

\* an append was accepted without error although the stored row with its key
\* differs from the row the entry would make
C11_Witness ==
  /\ ret.call = "append"
  /\ ret.error = "none"
  /\ \E r \in db : /\ r.session_id = ret.arg.session_id
                    /\ r.sequence = ret.arg.sequence
                    /\ r # RowOf(ret.arg)

\* C12: append of an entry whose proof is absent fails with "Cannot persist
\* unsigned message" and stores nothing.
C12_UnsignedRejected ==
  [][ (ret'.call = "append" /\ ret'.arg.proof = NoProof)
      => (ret'.error = ErrUnsigned /\ db' = db) ]_vars

C12_Witness ==
  /\ conn = "open"
  /\ ret.call = "append"
  /\ ret.arg.proof = NoProof
  /\ ret.error = ErrUnsigned

\* C13: close on a closed storage returns without error; once closed the
\* storage stays closed and its table untouched, every reading operation and
\* append of a signed entry fail with "Storage connection is closed", and
\* append of an unsigned entry fails with "Cannot persist unsigned message".
C13_ClosedStaysClosed ==
  [][ conn = "closed"
      => /\ conn' = "closed"
         /\ db' = db
         /\ ret'.call = "close" => ret'.error = "none"
         /\ ret'.call \in ReadCalls => ret'.error = ErrClosed
         /\ ret'.call = "append" =>
              ret'.error = IF ret'.arg.proof = NoProof THEN ErrUnsigned
                           ELSE ErrClosed ]_vars

\* an unsigned entry was handed to append after close
C13_Witness ==
  /\ conn = "closed"
  /\ ret.call = "append"
  /\ ret.arg.proof = NoProof
  /\ ret.error = ErrUnsigned

\* C13 as stated: after close every operation, append included, fails with
\* the "closed" error.
C13_EveryOperationClosedError ==
  [][ conn = "closed"
      => /\ conn' = "closed"
         /\ ret'.call = "close" => ret'.error = "none"
         /\ ret'.call \in ReadCalls \cup {"append"} => ret'.error = ErrClosed ]_vars

\* C14: load_messages on an open storage either returns the entries in
\* ascending sequence order, each entry after the first carrying the digest of
\* the entry returned just before it, or fails with "Chain broken at sequence
\* N"; it fails in no other way.
C14_LoadLinkedOrChainBroken ==
  (ret.call = "load_messages" /\ conn = "open")
  => \/ /\ ret.error = "none"
        /\ \A k \in 2..Len(ret.value) :
             /\ ret.value[k - 1].sequence < ret.value[k].sequence
             /\ ret.value[k].prev_hash = MessageHash(ret.value[k - 1])
     \/ ret.error = "Chain broken at sequence"

\* C15: a session constructed on a storage that holds a valid chain of n
\* entries has that chain as its chain; its next append has sequence n and
\* carries the stored digest of the stored tail as prev_hash; the extended
\* chain verifies valid.
C15_RehydratedSessionContinues ==
  (op.kind = "open" /\ op.field = "ok")
  => LET n == op.index
     IN  /\ Len(messages) >= n
         /\ Len(messages) = n =>
              /\ LoadMessages(db, SessionId).status = "ok"
              /\ messages = LoadMessages(db, SessionId).msgs
              /\ n = Cardinality({r \in db : r.session_id = SessionId})
         /\ Len(messages) > n =>
              /\ messages[n + 1].sequence = n
              /\ n > 0 =>
                   \E r \in db : /\ r.session_id = SessionId
                                 /\ r.sequence = n - 1
                                 /\ messages[n + 1].prev_hash = r.message_hash
              /\ n = 0 => messages[n + 1].prev_hash = Str("")
         /\ Verify(messages, TrustedKeys).is_valid
         /\ Verify(messages, TrustedKeys).failures = <<>>

\* a session rehydrated from two stored entries has appended a third
C15_Witness ==
  /\ op.kind = "open"
  /\ op.field = "ok"
  /\ op.index = MaxLen - 1
  /\ Len(messages) = MaxLen

\* the run ended with verify_from_storage of the session on a readable handle
AuditedOpen ==
  /\ ret.call = "verify_from_storage"
  /\ ret.arg = [session_id |-> SessionId, handle |-> "open", io_ok |-> TRUE]

\* C16: after a direct modification of the rows of a persisted chain that
\* changes an entry's content, its sequence or the order of entries, its
\* agent_id or its session_id, verify_from_storage of the session with the
\* original trust map returns is_valid = false.
C16_DirectModificationDetected ==
  (AuditedOpen /\ op.kind = "sql") => ~result.is_valid

\* the same for modifications of content, sequence, order and agent_id alone
C16_OtherColumnsDetected ==
  (AuditedOpen /\ op.kind = "sql" /\ op.field # "session_id") => ~result.is_valid

C18_TrustMapRequired ==
  ret.call = "LogVerifier"
  => /\ (~ret.arg.given \/ ret.arg.map = <<>>) => ret.error = ErrTrustRequired
     /\ (ret.arg.given /\ ret.arg.map # <<>>) =>
          /\ ret.error = "none"
          /\ verifier = [constructed |-> TRUE, trusted_keys |-> ret.arg.map]

\* a construction with the empty map has failed after one with a map succeeded
C18_Witness ==
  /\ ret.call = "LogVerifier"
  /\ ret.arg.given
  /\ ret.arg.map = <<>>
  /\ ret.error = ErrTrustRequired
  /\ verifier.constructed

\* C19: a session without storage and without appends has length 0, an empty
\* chain and no last hash, and verify of its chain is valid with no failure
\* for every non-empty trust map.
C19_EmptySession ==
  (messages = <<>> /\ storage = "none")
  => /\ Len(messages) = 0
     /\ GetChain(messages) = <<>>
     /\ GetLastHash(messages) = NoHash
     /\ \A trusted_keys \in TrustMaps \ {<<>>} :
          Verify(GetChain(messages), trusted_keys) = [is_valid |-> TRUE, failures |-> <<>>]
     /\ op.kind = "verify" => (result.is_valid /\ result.failures = <<>>)

\* the empty chain was verified by a verifier that trusts one agent alone
C19_Witness ==
  /\ messages = <<>>
  /\ op.kind = "verify"
  /\ probe = <<>>
  /\ verifier.constructed
  /\ Cardinality(DOMAIN verifier.trusted_keys) = 1
  /\ result.is_valid

Reports(res, index, category, message) ==
  \E n \in 1..Len(res.failures) :
    res.failures[n] = [index |-> index, category |-> category, message |-> message]

\* the violations present in a chain at position k (1-based), read off the
\* chain itself
SessionViolation(chain, k) == chain[k].session_id # chain[1].session_id

SequenceViolation(chain, k) == chain[k].sequence # k - 1

MissingProof(chain, k) == chain[k].proof = NoProof

StructuralViolation(chain) ==
  \E k \in 1..Len(chain) :
    SessionViolation(chain, k) \/ SequenceViolation(chain, k) \/ MissingProof(chain, k)

BrokenLink(chain, k) == k > 1 /\ chain[k].prev_hash # MessageHash(chain[k - 1])

UntrustedAgent(chain, k) == chain[k].agent_id \notin DOMAIN TrustedKeys

BadSignature(chain, k) ==
  /\ ~MissingProof(chain, k)
  /\ ~UntrustedAgent(chain, k)
  /\ ~VerifyBytes(TrustedKeys[chain[k].agent_id],
                  B64urlDecode(chain[k].proof.proof_value),
                  CanonicalJson(Payload(chain[k])))

\* C20: verify reports, with the index of the position, every session
\* mismatch, sequence mismatch and missing proof present in the chain; when
\* the chain has none of these, it reports every broken prev_hash link, every
\* untrusted agent and every bad signature; it does not stop at the first.
C20_AllFailuresOfThePhasesRun ==
  op.kind # "none"
  => \A k \in 1..Len(probe) :
       /\ SessionViolation(probe, k) =>
            Reports(result, k - 1, "session", "Session ID mismatch")
       /\ SequenceViolation(probe, k) =>
            Reports(result, k - 1, "sequence", "Sequence number mismatch")
       /\ MissingProof(probe, k) =>
            Reports(result, k - 1, "signature", "Message missing proof/signature")
       /\ ~StructuralViolation(probe) =>
            /\ BrokenLink(probe, k) =>
                 Reports(result, k - 1, "hash_chain",
                         "prev_hash does not match hash of previous message")
            /\ UntrustedAgent(probe, k) =>
                 Reports(result, k - 1, "signature", "No trusted public key found")
            /\ BadSignature(probe, k) =>
                 Reports(result, k - 1, "signature", "Signature verification failed")

\* two failures at different positions were reported for one chain
C20_Witness ==
  /\ op.kind = "swap"
  /\ Len(result.failures) >= 2
  /\ \E m, n \in 1..Len(result.failures) :
       result.failures[m].index # result.failures[n].index

\* C20 as stated: every violation present at a position, of any of the six
\* kinds, has a failure record with that position's index.
C20_EveryViolationReported ==
  op.kind # "none"
  => \A k \in 1..Len(probe) :
       /\ SessionViolation(probe, k) => HasFailure(result, k - 1, "session")
       /\ SequenceViolation(probe, k) => HasFailure(result, k - 1, "sequence")
       /\ MissingProof(probe, k) => HasFailure(result, k - 1, "signature")
       /\ BrokenLink(probe, k) => HasFailure(result, k - 1, "hash_chain")
       /\ UntrustedAgent(probe, k) => HasFailure(result, k - 1, "signature")
       /\ BadSignature(probe, k) => HasFailure(result, k - 1, "signature")

\* IsPrefix(s, t): the sequence s is an initial part of t
IsPrefix(s, t) == Len(s) <= Len(t) /\ s = SubSeq(t, 1, Len(s))

\* C21: when the storage write inside append fails, the call still completes:
\* the chain in memory is the old chain with one signed entry added, and it
\* verifies valid; nothing is stored.
C21_FailedWriteKeepsEntry ==
  [][ warned' # warned
      => /\ Len(messages') = Len(messages) + 1
         /\ IsPrefix(messages, messages')
         /\ messages'[Len(messages')].proof # NoProof
         /\ messages'[Len(messages')].sequence \in warned'
         /\ db' = db
         /\ Verify(messages', TrustedKeys).is_valid
         /\ Verify(messages', TrustedKeys).failures = <<>> ]_vars

\* the write of the last of MaxLen appends failed
C21_Witness ==
  /\ Len(messages) = MaxLen
  /\ (MaxLen - 1) \in warned
  /\ \A r \in db : r.sequence # MaxLen - 1

\* C22: whatever subset of the writes of a storage-backed session failed, a
\* later load_messages succeeds and returns a prefix of the chain in memory.
C22_ReloadIsPrefix ==
  loaded.status # "none"
  => /\ loaded.status = "ok"
     /\ IsPrefix(loaded.msgs, messages)

\* C23: every step of a session leaves the chain it had as a prefix of the
\* chain it has: an append adds exactly one entry and changes none, and
\* get_chain, get_last_hash and close leave the chain as it is.
C23_SessionOnlyGrows ==
  [][ /\ IsPrefix(messages, messages')
      /\ messages' # messages => Len(messages') = Len(messages) + 1
      /\ (ret'.call \in {"get_chain", "get_last_hash"} /\ op'.kind = "none"
            /\ Len(messages') = Len(messages)) => messages' = messages
      /\ closedLen' # closedLen => messages' = messages ]_vars

\* a full chain was read and the session closed
C23_Witness ==
  /\ Len(messages) = MaxLen
  /\ closedLen = MaxLen
  /\ ret.call = "get_last_hash"
  /\ ret.value = MessageHash(messages[MaxLen])

\* C24: adding to, removing from or replacing an element of the list
\* get_chain returned leaves the session's chain, its length, get_last_hash
\* and the sequence and prev_hash of the next appended entry unchanged.
C24_GetChainIsCopy ==
  [][ (op.kind = "none" /\ op'.kind = "edit")
      => /\ ret'.value.items # ret.value.items
         /\ messages' = messages
         /\ Len(messages') = Len(messages)
         /\ GetLastHash(messages') = GetLastHash(messages)
         /\ \A content \in Contents, caller \in Callers, timestamp \in Timestamps :
              LET before == Unsigned(messages, SessionId, content, caller.role,
                                     caller.agent_id, timestamp, "text/plain")
                  after  == Unsigned(messages', SessionId, content, caller.role,
                                     caller.agent_id, timestamp, "text/plain")
              IN  /\ after.sequence = before.sequence
                  /\ after.prev_hash = before.prev_hash ]_vars

\* the caller removed an entry from a copy of the full chain, which the
\* session still holds whole
C24_Witness ==
  /\ op.kind = "edit"
  /\ op.field = "remove"
  /\ Len(ret.value.items) = MaxLen - 1
  /\ Len(messages) = MaxLen

\* C25: run on a session that has stored rows, the verify command exits with
\* code 0 when the stored session verifies valid, and with code 1 when it is
\* invalid or its chain cannot be loaded.
C25_VerifyExitCode ==
  (/\ ret.call = "cli verify"
   /\ \E r \in db : r.session_id = ret.arg.session_id)
  => LET stored == LoadMessages(db, ret.arg.session_id)
         valid  == /\ ret.arg.db_exists
                   /\ stored.status = "ok"
                   /\ Verify(stored.msgs, TrustedKeys).is_valid
     IN  ret.value = IF valid THEN 0 ELSE 1

\* the categories and messages of the failures the three phases write
StructuralFailure(f) ==
  \/ f.category = "session" /\ f.message = "Session ID mismatch"
  \/ f.category = "sequence" /\ f.message = "Sequence number mismatch"
  \/ f.category = "signature" /\ f.message = "Message missing proof/signature"

LinkFailure(f) == f.category = "hash_chain"

KeyFailure(f) ==
  /\ f.category = "signature"
  /\ f.message \in {"No trusted public key found", "Signature verification failed"}

\* C26: the phases run in order.  A chain with a structural violation gets
\* the failures of phase 1 and no hash_chain, signature-verification or
\* untrusted-key failure; a chain without one gets the failures of phase 2 and
\* of phase 3 both: a broken link is reported exactly where there is one, and
\* so is an untrusted key and a bad signature, whether or not phase 2 failed.
C26_PhaseOrdering ==
  (op.kind # "none" /\ probe # <<>>)
  => IF StructuralViolation(probe)
     THEN /\ result.failures # <<>>
          /\ \A n \in 1..Len(result.failures) : StructuralFailure(result.failures[n])
     ELSE /\ \A n \in 1..Len(result.failures) :
               LinkFailure(result.failures[n]) \/ KeyFailure(result.failures[n])
          /\ \A k \in 1..Len(probe) :
               /\ BrokenLink(probe, k) <=>
                    Reports(result, k - 1, "hash_chain",
                            "prev_hash does not match hash of previous message")
               /\ UntrustedAgent(probe, k) <=>
                    Reports(result, k - 1, "signature", "No trusted public key found")
               /\ BadSignature(probe, k) <=>
                    Reports(result, k - 1, "signature", "Signature verification failed")

\* phase 2 and phase 3 both reported on one chain, phase 2 first
C26_Witness ==
  /\ op.kind = "field"
  /\ ~StructuralViolation(probe)
  /\ Len(result.failures) >= 2
  /\ LinkFailure(result.failures[1])
  /\ KeyFailure(result.failures[Len(result.failures)])

\* C27: after a stored row's canonical_json was edited so that its content
\* differs, verifying the session from storage returns is_valid = false with
\* at least one failure of category signature.
C27_EditedRowSignatureFailure ==
  (AuditedOpen /\ op.kind = "sql" /\ op.field = "content")
  => /\ ~result.is_valid
     /\ HasCategory(result, "signature")

\* C28: when the rows of the session fail the reload chain check, constructing
\* a session on them does not give the caller an attached session with an
\* empty chain that takes appends while the broken rows remain.
C28_BrokenRowsSurfaced ==
  (op.kind = "open" /\ op.field = "Chain broken")
  => ~( /\ storage = "attached"
        /\ conn = "open"
        /\ LoadMessages(db, SessionId).status = "Chain broken"
        /\ Len(messages) = 1
        /\ messages[1].sequence = 0
        /\ messages[1].proof # NoProof )

\* C29: while a storage-backed session is the only writer and every write
\* succeeds, load_messages of its session_id returns the chain the session
\* holds in memory, after construction and after every append: one row per
\* entry and the entries equal in order.
C29_StorageMirrorsChain ==
  (storage = "attached" /\ conn = "open" /\ warned = {})
  => /\ LoadMessages(db, SessionId) = [status |-> "ok", msgs |-> messages, at |-> -1]
     /\ Cardinality({r \in db : r.session_id = SessionId}) = Len(messages)
     /\ \A k \in 1..Len(messages) : RowOf(messages[k]) \in db

\* a session constructed on one stored entry has appended up to the bound
C29_Witness ==
  /\ storage = "attached"
  /\ op.kind = "open"
  /\ op.index = 1
  /\ Len(messages) = MaxLen
  /\ LoadMessages(db, SessionId).msgs = messages

\* the failure records of a result that carry the index of position k
FailuresAt(res, k) == {n \in 1..Len(res.failures) : res.failures[n].index = k - 1}

\* C30: in phase 3 an entry whose agent_id is not in the trust map gets one
\* failure of category signature, 'No trusted public key found', at its
\* index, and the entries after it are still checked: each of them gets its
\* own failure when it has no trusted key or its signature does not verify
\* under the key the map gives, and none otherwise.
C30_UntrustedAgentReported ==
  (op.kind = "verify" /\ verifier.constructed)
  => \A k \in 1..Len(probe) :
       LET trusted_keys == verifier.trusted_keys
           agent_id     == probe[k].agent_id
       IN  /\ agent_id \notin DOMAIN trusted_keys =>
                /\ Cardinality(FailuresAt(result, k)) = 1
                /\ Reports(result, k - 1, "signature", "No trusted public key found")
           /\ agent_id \in DOMAIN trusted_keys =>
                IF VerifyBytes(trusted_keys[agent_id],
                               B64urlDecode(probe[k].proof.proof_value),
                               CanonicalJson(Payload(probe[k])))
                THEN FailuresAt(result, k) = {}
                ELSE /\ Cardinality(FailuresAt(result, k)) = 1
                     /\ Reports(result, k - 1, "signature",
                                "Signature verification failed")

\* the first entry had no trusted key and a later entry was still checked
\* and failed its signature
C30_Witness ==
  /\ op.kind = "verify"
  /\ Len(probe) = MaxLen
  /\ probe[1].agent_id \notin DOMAIN verifier.trusted_keys
  /\ Reports(result, 0, "signature", "No trusted public key found")
  /\ Reports(result, MaxLen - 1, "signature", "Signature verification failed")

\* C31: verify never raises: for every list of entries, also one with a proof
\* value that is no decodable base64url or with a malformed key in the trust
\* map, it returns a result in which the problem is a failure record.
C31_VerifyNeverRaises ==
  ret.call = "verify"
  => /\ ret.error = "none"
     /\ op.index >= 0 => HasFailure(result, op.index, "signature")
     /\ \A k \in 1..Len(probe) :
          ret.arg[probe[k].agent_id] = MalformedKey
          => HasFailure(result, k - 1, "signature")

\* the part of C31 that holds: when no proof value makes b64url_decode raise,
\* a malformed key of the trust map and a proof value that decodes to no
\* signature are each reported as a signature failure at the entry's index
C31_MalformedReportedUnlessRaised ==
  (ret.call = "verify" /\ ret.error = "none")
  => /\ op.index >= 0 => HasFailure(result, op.index, "signature")
     /\ \A k \in 1..Len(probe) :
          ret.arg[probe[k].agent_id] = MalformedKey
          => Reports(result, k - 1, "signature", "Failed to load trusted public key")

\* C32: the verify command run on an existing database that holds rows, for
\* a session id that has no row, exits with code 1.
C32_VerifyMissingSessionExit ==
  ( /\ ret.call = "cli verify"
    /\ ret.arg.db_exists
    /\ db # {}
    /\ ~\E r \in db : r.session_id = ret.arg.session_id )
  => /\ ret.value = 1
     /\ ret.error # "none"

\* the command was run for a session id without rows on a database that
\* holds a full chain of another session
C32_Witness ==
  /\ ret.call = "cli verify"
  /\ ret.arg = [session_id |-> "evil", db_exists |-> TRUE]
  /\ Cardinality({r \in db : r.session_id = SessionId}) = MaxLen
  /\ ~\E r \in db : r.session_id = "evil"
  /\ ret.value = 1

\* C33: the bytes whose signature phase 3 checks are the canonical
\* serialization of the entry with all ten fields and proof = {}: these are
\* the bytes of every entry, and an entry that carries its agent's signature
\* over them gets no signature failure.
C33_SignedBytesHaveEmptyProof ==
  (op.kind = "field" /\ op.field = "proof_value")
  => LET k   == op.index + 1
         msg == probe[k]
     IN  /\ CanonicalJson(Payload(msg)) = UnsignedBytes(msg)
         /\ B64urlDecode(msg.proof.proof_value)
              = SignBytes(SignerOf(msg.agent_id), UnsignedBytes(msg))
            => ~HasFailure(result, op.index, "signature")

\* C34: query_messages(session_id, limit) with limit >= 0 returns the
\* min(limit, count) stored entries of the session with the highest sequence
\* numbers, in ascending sequence order, and list_sessions returns every
\* session id that has a row exactly once, a session with a later latest
\* timestamp never after one with an earlier; neither changes the table.
C34_RecentAndSessions ==
  [][ /\ (ret'.call = "query_messages" /\ ret'.error = "none" /\ ret'.arg.limit >= 0)
         => LET own == {r \in db : r.session_id = ret'.arg.session_id}
                v   == ret'.value
                n   == IF ret'.arg.limit < Cardinality(own)
                       THEN ret'.arg.limit ELSE Cardinality(own)
            IN  /\ db' = db
                /\ Len(v) = n
                /\ \A i, j \in 1..Len(v) : i < j => v[i].sequence < v[j].sequence
                /\ \A i \in 1..Len(v) :
                     /\ \E r \in own : v[i] = MessageOfRow(r, ret'.arg.session_id)
                     /\ Cardinality({r \in own : r.sequence > v[i].sequence})
                          = Len(v) - i
      /\ (ret'.call = "list_sessions" /\ ret'.error = "none")
         => LET v == ret'.value
            IN  /\ db' = db
                /\ {v[i] : i \in 1..Len(v)} = {r.session_id : r \in db}
                /\ \A i, j \in 1..Len(v) : i # j => v[i] # v[j]
                /\ \A i, j \in 1..Len(v) :
                     i < j => TimestampRank(MaxTimestamp(db, v[i]))
                                >= TimestampRank(MaxTimestamp(db, v[j])) ]_vars

\* the one most recent of two stored entries was asked for and returned
C34_Witness ==
  /\ ret.call = "query_messages"
  /\ ret.error = "none"
  /\ ret.arg.limit = 1
  /\ Cardinality({r \in db : r.session_id = ret.arg.session_id}) = MaxRows
  /\ Len(ret.value) = 1
  /\ \A r \in db : r.sequence <= ret.value[1].sequence

\* the categories verify writes
VerifyCategories == {"session", "sequence", "signature", "hash_chain"}

C36_PrefixClosed ==
  LET full == LoadMessages(db, SessionId)
  IN  /\ \A trusted_keys \in TrustMaps \ {<<>>} :
           (full.status = "ok" /\ Verify(full.msgs, trusted_keys).is_valid)
           => \A k \in 0..Len(full.msgs) :
                /\ Verify(SubSeq(full.msgs, 1, k), trusted_keys).is_valid
                /\ LoadMessages(SqlDeleteTail(db, SessionId, k), SessionId)
                     = [status |-> "ok", msgs |-> SubSeq(full.msgs, 1, k), at |-> -1]
      /\ (AuditedOpen /\ op.kind = "delete")
           => /\ result.is_valid
              /\ result.failures = <<>>
              /\ full.status = "ok"
              /\ IsPrefix(full.msgs, messages)
              /\ Len(full.msgs) = op.index

\* the last entry of a full stored chain was deleted and the rest audited
C36_Witness ==
  /\ AuditedOpen
  /\ op.kind = "delete"
  /\ op.index = MaxLen - 1
  /\ Len(messages) = MaxLen
  /\ Cardinality({r \in db : r.session_id = SessionId}) = MaxLen - 1
  /\ result.is_valid

\* C37: when two sessions constructed on the same stored chain append in any
\* interleaving, the table holds at most one row per (session_id, sequence)
\* and never loses or changes a row: the first insert for a sequence number
\* is kept.  The append that comes second for a sequence number returns its
\* signed entry, adds it to its own chain in memory, leaves the table as it
\* was and reports no error and no warning.
C37_ContestedSequenceFirstWins ==
  [][ op.kind = "fork"
      => /\ \A r \in db : r \in db'
         /\ \A r, q \in db' :
              (r.session_id = q.session_id /\ r.sequence = q.sequence) => r = q
         /\ messages' # messages
              => LET signed == messages'[Len(messages')]
                     taken  == \E r \in db : /\ r.session_id = SessionId
                                             /\ r.sequence = signed.sequence
                 IN  /\ messages' = Append(messages, signed)
                     /\ signed.sequence = Len(messages)
                     /\ signed.proof # NoProof
                     /\ warned' = warned
                     /\ taken => db' = db
                     /\ ~taken => db' = db \cup {RowOf(signed)}
         /\ loaded'.msgs # loaded.msgs
              => LET signed == loaded'.msgs[Len(loaded'.msgs)]
                     taken  == \E r \in db : /\ r.session_id = SessionId
                                             /\ r.sequence = signed.sequence
                 IN  /\ loaded'.msgs = Append(loaded.msgs, signed)
                     /\ signed.sequence = Len(loaded.msgs)
                     /\ ret'.error = "none"
                     /\ ret'.value = signed
                     /\ warned' = warned
                     /\ taken => db' = db
                     /\ ~taken => db' = db \cup {RowOf(signed)} ]_vars

\* both sessions appended a different entry for the same sequence number; the
\* second session's row is stored and the first session's entry is in memory
\* only, with no warning
C37_Witness ==
  /\ op.kind = "fork"
  /\ op.index = MaxLen - 1
  /\ Len(messages) = MaxLen
  /\ Len(loaded.msgs) = MaxLen
  /\ messages[MaxLen] # loaded.msgs[MaxLen]
  /\ RowOf(loaded.msgs[MaxLen]) \in db
  /\ RowOf(messages[MaxLen]) \notin db
  /\ warned = {}

\* C38: with one session appending and readers calling load_messages for its
\* session_id at any point between the appends, every load succeeds and
\* returns a prefix of the writer's chain, whole signed entries only.
C38_ReaderSeesPrefix ==
  [][ loaded' # loaded
      => /\ loaded'.status = "ok"
         /\ IsPrefix(loaded'.msgs, messages)
         /\ \A k \in 1..Len(loaded'.msgs) : loaded'.msgs[k].proof # NoProof ]_vars

\* the part of C38 that holds: as long as no write of the writer has failed,
\* every load of a reader succeeds and returns a prefix of the writer's chain
C38_ReaderSeesPrefixWhilePersisted ==
  [][ (loaded' # loaded /\ warned = {})
      => /\ loaded'.status = "ok"
         /\ IsPrefix(loaded'.msgs, messages)
         /\ \A k \in 1..Len(loaded'.msgs) : loaded'.msgs[k].proof # NoProof ]_vars

\* C39: close of a session closes its storage handle and detaches it, and
\* leaves the chain and the table as they are; on a closed session a second
\* close changes nothing, and an append adds one signed entry with the next
\* sequence number and the prev_hash of the last entry to the chain in memory,
\* writes no row and prints no warning.
C39_CloseDetachesStorage ==
  [][ /\ closedLen' # closedLen
           => /\ storage = "attached"
              /\ storage' = "none"
              /\ conn' = "closed"
              /\ closedLen' = Len(messages)
              /\ messages' = messages
              /\ db' = db
      /\ closedLen >= 0
           => /\ storage' = "none"
              /\ conn' = "closed"
              /\ closedLen' = closedLen
              /\ db' = db
              /\ warned' = warned
              /\ messages' # messages
                   => LET signed == messages'[Len(messages')]
                      IN  /\ messages' = Append(messages, signed)
                          /\ signed.sequence = Len(messages)
                          /\ signed.prev_hash = PrevHash(messages)
                          /\ signed.proof # NoProof
                          /\ Verify(messages', TrustedKeys).is_valid ]_vars

\* a session closed after its first entry has appended up to the bound, and
\* only the first entry is stored
C39_Witness ==
  /\ closedLen = 1
  /\ storage = "none"
  /\ conn = "closed"
  /\ Len(messages) = MaxLen
  /\ warned = {}
  /\ db = {RowOf(messages[1])}

\* the message objects of the event just handled that were new to the handler
\* and whose mapped role is registered
LgFresh ==
  { m \in { ret'.arg[k] : k \in 1..Len(ret'.arg) } :
      m \notin Seen /\ RoleMap(m.type) \in DOMAIN LgKeyRegistry }

====
